---- MODULE Spec2Model ----
(***************************************************************************)
(* Model of the terminal plotting engine of tuipe (internal/stats/plot.go).*)
(*                                                                         *)
(* A float64 value is modelled as a record [n, d, u, f]: the rational n/d  *)
(* the operations yield without rounding, a bound u of the distance of the *)
(* float64 from it, and the expression f the code evaluates.  A comparison,*)
(* floor, rounding or %.2f is decided by n/d where u leaves no doubt and   *)
(* by f evaluated in IEEE 754 binary64 arithmetic otherwise.  Text is      *)
(* modelled as sequences of Unicode code points, the sink as the sequence  *)
(* of lines written to it.  Go slices are 0-based, TLA+ sequences 1-based: *)
(* At(s, i) reads Go's s[i].                                               *)
(***************************************************************************)
EXTENDS Integers, Sequences, FiniteSets, TLC

VARIABLES
    \* resampleSeries call
    values, width, out, rpc,
    \* valueToRow call
    rowValue, rowMin, rowMax, rowHeight, rowOut, qpc,
    GOARCH,             \* the architecture the program is built for
    \* drawLine call
    x0, y0, x1, y1, dots, lpc,
    \* plotSeries call
    title, series, plotWidth, height, forceColor, NO_COLOR, isTerminal,
    termCols,
    scaled, minMax, seriesCells, useColor, sink, ppc,
    calls,              \* plotSeries calls that have returned
    \* PlotWidthFor call
    totalWidth, fitWidth, wpc,
    \* RenderCurvesWithSize call
    sessions, window, perSession, chars, cpc,
    curves,             \* what renderCurves returned last, as lines
    \* TopCharsByFrequency call
    aggs, topN, top, tpc,
    \* buildStyledRunes call
    targetRunes, inputRunes, cursorIndex, colorProfile, styledRunes, bpc,
    \* statsui.Model
    cfg, store, report, errMsg, filterMode, filterInputs, filterIndex,
    filterError, charSelection, charSelectionCustom, charInputMode,
    charInput, activeTab,
    upc,                \* "run" until tea.Quit is returned
    \* tui.Model (targetRunes and inputRunes are those above)
    started, startedAt, prevCorrectAt, correctNonSpace, incorrectNonSpace,
    charStats, hasLast, lastWPM, lastAcc, allWPM, allAcc, allCorrect,
    allIncorrect, allDuration,
    saved,              \* the sessions of the store, as InsertSession got them
    now,                \* the clock, in ms; 0 is the zero time.Time
    keyMsg,             \* the key message Update handled last, see KeyOf
    ypc,                \* "run" until tea.Quit is returned
    \* wrapStyledRunes call: arguments, locals of the loop, result
    wrapRunes, wrapWidth, wrapLine, lineWidth, lastSpaceIdx, wrapI, wrapOut,
    gpc

rvars == <<values, width, out, rpc>>
qvars == <<rowValue, rowMin, rowMax, rowHeight, rowOut, qpc, GOARCH>>
lvars == <<x0, y0, x1, y1, dots, lpc>>
pin   == <<title, series, plotWidth, height, forceColor, NO_COLOR, isTerminal,
           termCols>>
pout  == <<scaled, minMax, seriesCells, useColor, sink, ppc, calls>>
wvars == <<totalWidth, fitWidth, wpc>>
cvars == <<sessions, window, perSession, chars, cpc, curves>>
tvars == <<aggs, topN, top, tpc>>
bvars == <<targetRunes, inputRunes, cursorIndex, colorProfile, styledRunes,
           bpc>>
uvars == <<cfg, store, report, errMsg, filterMode, filterInputs, filterIndex,
           filterError, charSelection, charSelectionCustom, charInputMode,
           charInput, activeTab, upc>>
yvars == <<started, startedAt, prevCorrectAt, correctNonSpace,
           incorrectNonSpace, charStats, hasLast, lastWPM, lastAcc, allWPM,
           allAcc, allCorrect, allIncorrect, allDuration, saved, now, keyMsg,
           ypc>>
gvars == <<wrapRunes, wrapWidth, wrapLine, lineWidth, lastSpaceIdx, wrapI,
           wrapOut, gpc>>
\* the variables of the typing interface outside buildStyledRunes
typing == <<yvars, gvars>>
\* the variables outside the curve renderers
others == <<tvars, bvars, uvars, typing>>
\* the variables of the calls outside the plot engine
later == <<cvars, others>>
vars  == <<rvars, qvars, lvars, pin, pout, wvars, later>>

----------------------------------------------------------------------------
\* Bounds of the model.
MaxLen    == 5      \* longest input of a resampleSeries call
MaxWidth  == 5      \* largest target width of a resampleSeries call
MaxCoord  == 3      \* drawLine endpoints are drawn from -MaxCoord..MaxCoord
MaxSeries    == 2   \* most series handed to one plotSeries call
MaxSeriesLen == 2   \* longest series handed to plotSeries
MaxHeight    == 4   \* largest height handed to plotSeries
MaxStyled    == 6   \* most series of a call that cycles through the styles
MaxSessions  == 2   \* most sessions handed to the curve renderers
MaxCalls     == 2   \* most calls of renderCurves in a run
MaxTotalWidth == 60 \* PlotWidthFor arguments are drawn from -MaxTotalWidth..MaxTotalWidth

----------------------------------------------------------------------------
\* Generic helpers.
At(s, i) == s[i + 1]

Abs(a) == IF a < 0 THEN -a ELSE a

Max2(a, b) == IF a > b THEN a ELSE b

RECURSIVE GCD(_, _)
GCD(a, b) == IF b = 0 THEN a ELSE GCD(b, a % b)

RECURSIVE Do(_, _)

\* Natural numbers of any size, for the 53-bit significands of float64 and
\* their products and quotients: limbs to the base 2^15, the least significant
\* first, no zero limb at the end.  Sums, differences and products by a limb
\* are formed limb by limb and the carries looked ahead, so that the nesting
\* of an evaluation does not grow with the number of limbs.
Limb == 2^15

BTrim(a) ==
    LET nz == {i \in 1..Len(a) : a[i] # 0}
    IN  IF nz = {} THEN <<>>
        ELSE SubSeq(a, 1, CHOOSE i \in nz : \A j \in nz : j <= i)

\* the limbs of k, 0 <= k < 2^31
BNat(k) == BTrim(<<k % Limb, (k \div Limb) % Limb, k \div (Limb * Limb)>>)

limbAt(a, i) == IF i >= 1 /\ i <= Len(a) THEN a[i] ELSE 0

\* the number of the limbs a, below 2^31
BInt(a) == limbAt(a, 1) + Limb * limbAt(a, 2) + Limb * Limb * limbAt(a, 3)

\* the carry into limb i of the limb sums s, each 2 * Limb - 2 at most: a sum
\* of Limb or more below i sends it, and sums of Limb - 1 hand it on
carryInto(s, i) ==
    \E j \in 1..(i - 1) :
        s[j] >= Limb /\ \A m \in (j + 1)..(i - 1) : s[m] = Limb - 1

\* the limbs of the limb sums s; the last sum takes the last carry
carried(s) ==
    BTrim([i \in 1..Len(s) |->
              (s[i] + (IF carryInto(s, i) THEN 1 ELSE 0)) % Limb])

BAdd(a, b) ==
    LET n == Max2(Len(a), Len(b)) + 1
    IN  carried([i \in 1..n |-> limbAt(a, i) + limbAt(b, i)] \o <<>>)

\* the borrow from limb i of the limb differences t: a negative difference
\* below i takes it, and differences of zero hand it on
borrowFrom(t, i) ==
    \E j \in 1..(i - 1) : t[j] < 0 /\ \A m \in (j + 1)..(i - 1) : t[m] = 0

\* a - b for a >= b
BSub(a, b) ==
    LET t == [i \in 1..Len(a) |-> a[i] - limbAt(b, i)] \o <<>>
    IN  BTrim([i \in 1..Len(t) |->
                  (t[i] - (IF borrowFrom(t, i) THEN 1 ELSE 0) + Limb) % Limb])

\* -1, 0, 1 as a < b, a = b, a > b
BCmp(a, b) ==
    IF Len(a) # Len(b) THEN (IF Len(a) < Len(b) THEN -1 ELSE 1)
    ELSE LET df == {i \in 1..Len(a) : a[i] # b[i]}
         IN  IF df = {} THEN 0
             ELSE LET high == CHOOSE i \in df : \A j \in df : j <= i
                  IN  IF a[high] < b[high] THEN -1 ELSE 1

\* a * k for 0 <= k <= Limb: the product of a limb by k is a low and a high
\* limb, and limb i of the result sums the low one of a[i] and the high one
\* of a[i - 1]
BMulSmall(a, k) ==
    IF k = 0 THEN <<>>
    ELSE carried([i \in 1..(Len(a) + 1) |->
                     ((limbAt(a, i) * k) % Limb) + ((limbAt(a, i - 1) * k) \div Limb)]
                 \o <<>>)

BShiftLimbs(a, l) ==
    IF a = <<>> \/ l = 0 THEN a ELSE [i \in 1..l |-> 0] \o a

\* a times the limbs b[lo..hi] at their places; the range is halved
RECURSIVE BMulRange(_, _, _, _)
BMulRange(a, b, lo, hi) ==
    IF lo = hi THEN BShiftLimbs(Do("BMulSmall", <<a, b[lo]>>), lo - 1)
    ELSE Do("BAdd", <<BMulRange(a, b, lo, (lo + hi) \div 2),
                      BMulRange(a, b, (lo + hi) \div 2 + 1, hi)>>)

BMul(a, b) == IF b = <<>> THEN <<>> ELSE Do("BMulRange", <<a, b, 1, Len(b)>>)

\* a * 2^k
BShl(a, k) == BShiftLimbs(Do("BMulSmall", <<a, 2^(k % 15)>>), k \div 15)

\* a / 2^k rounded down
BShr(a, k) ==
    LET l == k \div 15
        s == k % 15
    IN  IF l >= Len(a) THEN <<>>
        ELSE LET hi == SubSeq(a, l + 1, Len(a))
             IN  BTrim([i \in 1..Len(hi) |->
                          (hi[i] \div 2^s) + (limbAt(hi, i + 1) % 2^s) * 2^(15 - s)])

\* the bit of weight 2^k
BBit(a, k) == (limbAt(a, k \div 15 + 1) \div 2^(k % 15)) % 2

\* the k lowest bits of a are zero
BLowZero(a, k) ==
    /\ \A i \in 1..(k \div 15) : limbAt(a, i) = 0
    /\ limbAt(a, k \div 15 + 1) % 2^(k % 15) = 0

\* the number of bits of k, 0 <= k < Limb
BitsOf(k) == CHOOSE n \in 0..15 : k < 2^n /\ (n = 0 \/ k >= 2^(n - 1))

BitLen(a) == IF a = <<>> THEN 0 ELSE 15 * (Len(a) - 1) + BitsOf(a[Len(a)])

\* One digit of the long division (Knuth, TAOCP 4.3.1, algorithm D): for a
\* divisor d whose last limb is Limb/2 or more and cur < d * Limb, the
\* quotient of the two leading limbs of cur by the leading limb of d exceeds
\* the digit by 2 at most.
digitOf(cur, d) ==
    LET n   == Len(d)
        est == (limbAt(cur, n + 1) * Limb + limbAt(cur, n)) \div d[n]
        q0  == IF est > Limb - 1 THEN Limb - 1 ELSE est
    IN  IF Do("BCmp", <<Do("BMulSmall", <<d, q0>>), cur>>) <= 0 THEN q0
        ELSE IF Do("BCmp", <<Do("BMulSmall", <<d, q0 - 1>>), cur>>) <= 0 THEN q0 - 1
        ELSE q0 - 2

\* one step of the long division: the digit for the limb x put under the
\* remainder r, and the remainder it leaves
divStep(x, r, d) ==
    LET cur == BTrim(<<x>> \o r)
        dg  == Do("digitOf", <<cur, d>>)
    IN  [dg |-> dg, r |-> Do("BSub", <<cur, Do("BMulSmall", <<d, dg>>)>>)]

\* long division of the limbs a[1..i] by d, r the remainder of the limbs
\* above: the limbs of the quotient.  A step is done before the steps for
\* the lower limbs are asked for.
RECURSIVE BDivFrom(_, _, _, _)
BDivFrom(a, d, i, r) ==
    IF i = 0 THEN <<>>
    ELSE CHOOSE q \in {Append(BDivFrom(a, d, i - 1, st.r), st.dg) :
                          st \in {Do("divStep", <<a[i], r, d>>)}} : TRUE

\* a / d rounded down, d # 0 and Len(a) >= Len(d); both are scaled to give
\* the divisor a leading limb of Limb/2 or more, and the division starts
\* with the limbs of a that d cannot divide as the remainder
BDiv(a, d) ==
    LET sh == 15 - BitsOf(d[Len(d)])
        a1 == Do("BShl", <<a, sh>>)
        d1 == Do("BShl", <<d, sh>>)
        k  == Len(d1) - 1
    IN  BTrim(Do("BDivFrom", <<a1, d1, Len(a1) - k, SubSeq(a1, Len(a1) - k + 1, Len(a1))>>))

----------------------------------------------------------------------------
\* IEEE 754 binary64 arithmetic, rounding to nearest, ties to even.  A float64
\* other than NaN and the infinities is (-1)^s * m * 2^e, m of 53 bits or zero;
\* the exponent range is not modelled.
FZero(s) == [s |-> s, m |-> <<>>, e |-> 0]

\* the float64 nearest to m * 2^e, or, with sticky, to a number between
\* m * 2^e and (m + 1) * 2^e
FRoundTo53(s, m, e, sticky) ==
    LET l == Do("BitLen", <<m>>)
    IN  IF l = 0 THEN FZero(s)
        ELSE IF l <= 53 THEN [s |-> s, m |-> Do("BShl", <<m, 53 - l>>), e |-> e - (53 - l)]
        ELSE LET k  == l - 53
                 q  == Do("BShr", <<m, k>>)
                 up == /\ Do("BBit", <<m, k - 1>>) = 1
                       /\ sticky \/ ~Do("BLowZero", <<m, k - 1>>) \/ Do("BBit", <<q, 0>>) = 1
                 q1 == IF up THEN Do("BAdd", <<q, <<1>>>>) ELSE q
             IN  IF Do("BitLen", <<q1>>) > 53
                 THEN [s |-> s, m |-> Do("BShr", <<q1, 1>>), e |-> e + k + 1]
                 ELSE [s |-> s, m |-> q1, e |-> e + k]

\* float64(i)
FInt(i) == Do("FRoundTo53", <<IF i < 0 THEN 1 ELSE 0, BNat(Abs(i)), 0, FALSE>>)

FNeg(x) == [x EXCEPT !.s = 1 - x.s]

\* math.Abs
FAbs(x) == [x EXCEPT !.s = 0]

\* |x| against |y|, neither zero
FCmpMag(x, y) ==
    IF x.e # y.e THEN (IF x.e < y.e THEN -1 ELSE 1) ELSE Do("BCmp", <<x.m, y.m>>)

\* -1, 0, 1 as x < y, x == y, x > y
FCmp(x, y) ==
    LET sx == IF x.m = <<>> THEN 0 ELSE IF x.s = 1 THEN -1 ELSE 1
        sy == IF y.m = <<>> THEN 0 ELSE IF y.s = 1 THEN -1 ELSE 1
    IN  IF sx # sy THEN (IF sx < sy THEN -1 ELSE 1)
        ELSE IF sx = 0 THEN 0
        ELSE sx * Do("FCmpMag", <<x, y>>)

\* the sum of two numbers of the sign s, hi.e >= lo.e
FAddMag(s, hi, lo) ==
    IF hi.e - lo.e > 60 THEN [hi EXCEPT !.s = s]
    ELSE Do("FRoundTo53", <<s, Do("BAdd", <<Do("BShl", <<hi.m, hi.e - lo.e>>), lo.m>>), lo.e, FALSE>>)

\* hi - lo for two magnitudes, hi.e >= lo.e; s is the sign of hi
FSubMag(s, hi, lo) ==
    IF hi.e - lo.e > 60
    THEN Do("FRoundTo53", <<s, Do("BSub", <<Do("BShl", <<hi.m, 3>>), <<1>>>>), hi.e - 3, TRUE>>)
    ELSE LET a == Do("BShl", <<hi.m, hi.e - lo.e>>)
             c == Do("BCmp", <<a, lo.m>>)
         IN  IF c = 0 THEN FZero(0)
             ELSE IF c > 0 THEN Do("FRoundTo53", <<s, Do("BSub", <<a, lo.m>>), lo.e, FALSE>>)
             ELSE Do("FRoundTo53", <<1 - s, Do("BSub", <<lo.m, a>>), lo.e, FALSE>>)

\* x + y
FAdd(x, y) ==
    IF x.m = <<>> /\ y.m = <<>> THEN FZero(IF x.s = 1 /\ y.s = 1 THEN 1 ELSE 0)
    ELSE IF x.m = <<>> THEN y
    ELSE IF y.m = <<>> THEN x
    ELSE IF x.s = y.s
         THEN (IF x.e >= y.e THEN Do("FAddMag", <<x.s, x, y>>) ELSE Do("FAddMag", <<x.s, y, x>>))
         ELSE (IF x.e >= y.e THEN Do("FSubMag", <<x.s, x, y>>) ELSE Do("FSubMag", <<y.s, y, x>>))

\* x - y
FSub(x, y) == Do("FAdd", <<x, FNeg(y)>>)

\* x * y
FMul(x, y) ==
    LET s == (x.s + y.s) % 2
    IN  IF x.m = <<>> \/ y.m = <<>> THEN FZero(s)
        ELSE Do("FRoundTo53", <<s, Do("BMul", <<x.m, y.m>>), x.e + y.e, FALSE>>)

\* x / y, y # 0
FDiv(x, y) ==
    LET s == (x.s + y.s) % 2
    IN  IF x.m = <<>> THEN FZero(s)
        ELSE LET n == Do("BShl", <<x.m, 57>>)
                 q == Do("BDiv", <<n, y.m>>)
             IN  Do("FRoundTo53", <<s, q, x.e - 57 - y.e, Do("BCmp", <<Do("BMul", <<q, y.m>>), n>>) # 0>>)

\* int(math.Floor(x))
FFloor(x) ==
    IF x.m = <<>> THEN 0
    ELSE IF x.e >= 0 THEN (IF x.s = 1 THEN -1 ELSE 1) * BInt(Do("BShl", <<x.m, x.e>>))
    ELSE LET q == BInt(Do("BShr", <<x.m, -x.e>>))
         IN  IF x.s = 0 THEN q
             ELSE IF Do("BLowZero", <<x.m, -x.e>>) THEN -q ELSE -q - 1

\* int(math.Round(x)): to the nearest integer, halves away from zero
FRound(x) ==
    IF x.m = <<>> THEN 0
    ELSE LET mag == IF x.e >= 0 THEN BInt(Do("BShl", <<x.m, x.e>>))
                    ELSE BInt(Do("BShr", <<x.m, -x.e>>)) + Do("BBit", <<x.m, -x.e - 1>>)
         IN  IF x.s = 1 THEN -mag ELSE mag

\* the hundredths that %.2f prints for x: |x| * 100 to the nearest integer,
\* a tie of the binary value to the even one
FHundredths(x) ==
    IF x.m = <<>> THEN 0
    ELSE LET p == Do("BMulSmall", <<x.m, 100>>)
         IN  IF x.e >= 0 THEN BInt(Do("BShl", <<p, x.e>>))
             ELSE LET k  == -x.e
                      q  == Do("BShr", <<p, k>>)
                      up == /\ Do("BBit", <<p, k - 1>>) = 1
                            /\ ~Do("BLowZero", <<p, k - 1>>) \/ Do("BBit", <<q, 0>>) = 1
                  IN  BInt(q) + (IF up THEN 1 ELSE 0)

FOp(op, x, y) ==
    CASE op = "+" -> Do("FAdd", <<x, y>>)
      [] op = "-" -> Do("FSub", <<x, y>>)
      [] op = "*" -> Do("FMul", <<x, y>>)
      [] op = "/" -> Do("FDiv", <<x, y>>)

\* the float64 values, and the four operations of the code on them
Floats == [s : {0, 1}, m : Seq(0..(Limb - 1)), e : Int]

Binary64 == [q \in {"+", "-", "*", "/"} \X Floats \X Floats |-> Do("FOp", q)]

\* the float64 an expression of the code evaluates to: <<i>> is float64(i),
\* <<"abs", f>> is math.Abs(f), <<op, f, g>> is f op g, and <<"is", x>> is
\* the float64 x of an expression evaluated before
RECURSIVE FEval(_)
FEval(f) ==
    IF Len(f) = 1 THEN Do("FInt", <<f[1]>>)
    ELSE IF Len(f) = 2 THEN (IF f[1] = "is" THEN f[2] ELSE FAbs(FEval(f[2])))
    ELSE Binary64[<<f[1], FEval(f[2]), FEval(f[3])>>]

\* the decisions the code takes on an expression: f < g, int(math.Floor(f)),
\* int(math.Round(f)), and the sign and hundredths that %.2f prints
FLess(f, g) == Do("FCmp", <<Do("FEval", <<f>>), Do("FEval", <<g>>)>>) < 0

FFloorOf(f) == Do("FFloor", <<Do("FEval", <<f>>)>>)

FRoundOf(f) == Do("FRound", <<Do("FEval", <<f>>)>>)

FPrinted(f) ==
    CHOOSE r \in {[neg |-> x.s = 1, hund |-> Do("FHundredths", <<x>>)] :
                     x \in {Do("FEval", <<f>>)}} : TRUE

\* The operations by name.  An operation asks for another one through Do, so
\* that the operations refer to each other the way recursive ones do.  p is
\* the tuple of the arguments, one at least, evaluated before the operation
\* starts.
Do(op, p) ==
    CASE Len(p) = 0 -> <<>>
      [] op = "BAdd" -> BAdd(p[1], p[2])
      [] op = "BSub" -> BSub(p[1], p[2])
      [] op = "BCmp" -> BCmp(p[1], p[2])
      [] op = "BMulSmall" -> BMulSmall(p[1], p[2])
      [] op = "BMulRange" -> BMulRange(p[1], p[2], p[3], p[4])
      [] op = "BMul" -> BMul(p[1], p[2])
      [] op = "BShl" -> BShl(p[1], p[2])
      [] op = "BShr" -> BShr(p[1], p[2])
      [] op = "BBit" -> BBit(p[1], p[2])
      [] op = "BLowZero" -> BLowZero(p[1], p[2])
      [] op = "BitLen" -> BitLen(p[1])
      [] op = "digitOf" -> digitOf(p[1], p[2])
      [] op = "divStep" -> divStep(p[1], p[2], p[3])
      [] op = "BDivFrom" -> BDivFrom(p[1], p[2], p[3], p[4])
      [] op = "BDiv" -> BDiv(p[1], p[2])
      [] op = "FRoundTo53" -> FRoundTo53(p[1], p[2], p[3], p[4])
      [] op = "FInt" -> FInt(p[1])
      [] op = "FCmpMag" -> FCmpMag(p[1], p[2])
      [] op = "FCmp" -> FCmp(p[1], p[2])
      [] op = "FAddMag" -> FAddMag(p[1], p[2], p[3])
      [] op = "FSubMag" -> FSubMag(p[1], p[2], p[3])
      [] op = "FAdd" -> FAdd(p[1], p[2])
      [] op = "FSub" -> FSub(p[1], p[2])
      [] op = "FMul" -> FMul(p[1], p[2])
      [] op = "FDiv" -> FDiv(p[1], p[2])
      [] op = "FFloor" -> FFloor(p[1])
      [] op = "FRound" -> FRound(p[1])
      [] op = "FHundredths" -> FHundredths(p[1])
      [] op = "FOp" -> FOp(p[1], p[2], p[3])
      [] op = "FEval" -> FEval(p[1])
      [] op = "FLess" -> FLess(p[1], p[2])
      [] op = "FFloorOf" -> FFloorOf(p[1])
      [] op = "FRoundOf" -> FRoundOf(p[1])
      [] op = "FPrinted" -> FPrinted(p[1])

----------------------------------------------------------------------------
\* The float64 values of the program.  A value is a record [n, d, u, f]:
\*   n/d  the real number the operations of the code yield when none of them
\*        rounds, in lowest terms, d > 0;
\*   f    the expression the code evaluates, its operations in the order of
\*        the source;
\*   u    a bound of the distance between the float64 and n/d, in units of
\*        2^-53; 0 when the float64 is n/d itself.
\* Where the code turns a float64 into a decision (a comparison, math.Floor,
\* math.Round, %.2f), n/d decides as long as the bound leaves no doubt about
\* the side of the float64; otherwise f is evaluated in binary64 arithmetic.
\* The operations are rounded one by one, as the compilers for amd64 do it;
\* a build that fuses x*y + z into one rounding may differ in the last bit.
Norm(n, d) ==
    LET s == IF d < 0 THEN -1 ELSE 1
        g == GCD(Abs(n), Abs(d))
    IN  [n |-> (s * n) \div g, d |-> (s * d) \div g]

RECURSIVE Dyadic(_)
Dyadic(d) == d = 1 \/ (d % 2 = 0 /\ Dyadic(d \div 2))

\* no bound is known
Unknown == 2^20

\* an integer above |n/d|
magnitude(a) == Abs(a.n) \div a.d + 1

\* sums and products of bounds, Unknown from 2^20 on
boundSum(x, y) == IF x + y >= Unknown THEN Unknown ELSE x + y

boundProd(x, y) ==
    IF x = 0 \/ y = 0 THEN 0
    ELSE IF x >= Unknown \/ y > Unknown \div x THEN Unknown
    ELSE x * y

\* the rounding of one operation with the result q: none when the operands
\* are exact and q is a float64, |q| * 2^-53 at most otherwise
rounding(a, b, q) ==
    IF a.u = 0 /\ b.u = 0 /\ Dyadic(q.d) THEN 0 ELSE magnitude(q)

IsZero(a) == a.u = 0 /\ a.n = 0

IsUnit(a) == a.u = 0 /\ a.d = 1 /\ Abs(a.n) = 1

\* float64(i)
FromInt(i) == [n |-> i, d |-> 1, u |-> 0, f |-> <<i>>]

\* the bound of a + b and a - b: x + 0 is x
sumBound(a, b, q) ==
    IF IsZero(a) THEN b.u
    ELSE IF IsZero(b) THEN a.u
    ELSE boundSum(boundSum(a.u, b.u), rounding(a, b, q))

\* The operations bind their operands before they use them, so that an
\* operand that is an expression is evaluated once.

\* a + b
RAdd(x, y) ==
    CHOOSE r \in {LET q == Norm(a.n * b.d + b.n * a.d, a.d * b.d)
                  IN  [n |-> q.n, d |-> q.d, u |-> sumBound(a, b, q),
                       f |-> <<"+", a.f, b.f>>] : a \in {x}, b \in {y}} : TRUE

\* a - b; the difference of one expression with itself is zero
RSub(x, y) ==
    CHOOSE r \in {LET q == Norm(a.n * b.d - b.n * a.d, a.d * b.d)
                  IN  [n |-> q.n, d |-> q.d,
                       u |-> IF a.f = b.f THEN 0 ELSE sumBound(a, b, q),
                       f |-> <<"-", a.f, b.f>>] : a \in {x}, b \in {y}} : TRUE

\* a * b: |AB - ab| <= |A - a||b| + |B - b||a| + |A - a||B - b|; x * 0 is
\* zero and x * 1 is x
RMul(x, y) ==
    CHOOSE r \in {LET q == Norm(a.n * b.n, a.d * b.d)
                      u == IF IsZero(a) \/ IsZero(b) THEN 0
                           ELSE IF IsUnit(a) THEN b.u
                           ELSE IF IsUnit(b) THEN a.u
                           ELSE boundSum(boundSum(boundProd(a.u, magnitude(b)),
                                                  boundProd(b.u, magnitude(a))),
                                         rounding(a, b, q))
                  IN  [n |-> q.n, d |-> q.d, u |-> u,
                       f |-> <<"*", a.f, b.f>>] : a \in {x}, b \in {y}} : TRUE

\* a / b, b # 0: |A/B - a/b| <= (|A - a| + |a/b||B - b|) / |B|, and
\* |B| >= |b|/2 when |B - b| <= 2^19 * 2^-53 (|b| is 2^-31 at least)
RDiv(x, y) ==
    CHOOSE r \in {LET q == Norm(a.n * b.d, a.d * b.n)
                      e == boundSum(a.u, boundProd(b.u, magnitude(q)))
                      \* an integer above 2 / |b|
                      w == (2 * b.d) \div Abs(b.n) + 1
                      u == IF IsZero(a) THEN 0
                           ELSE IF IsUnit(b) THEN a.u
                           ELSE IF b.u > 2^19 THEN Unknown
                           ELSE boundSum(boundProd(e, w), rounding(a, b, q))
                  IN  [n |-> q.n, d |-> q.d, u |-> u,
                       f |-> <<"/", a.f, b.f>>] : a \in {x}, b \in {y}} : TRUE

\* float64(n) / float64(d)
Rat(n, d) == RDiv(FromInt(n), FromInt(d))

\* math.Abs(a)
RAbs(x) ==
    CHOOSE r \in {[n |-> Abs(a.n), d |-> a.d, u |-> a.u, f |-> <<"abs", a.f>>] :
                     a \in {x}} : TRUE

\* the float64 of a value
Float(a) == Do("FEval", <<a.f>>)

\* the value with its float64 in the place of its expression
Keep(x) ==
    CHOOSE r \in {IF a.u = 0 THEN a ELSE [a EXCEPT !.f = <<"is", Float(a)>>] :
                     a \in {x}} : TRUE

\* two values stand for one real number
SameReal(a, b) == a.n = b.n /\ a.d = b.d

\* the float64 is within 2^-34 of n/d
Near(a) == a.u <= 2^19

\* a < b.  Two different n/d are 2^-31 apart at least.
RLt(x, y) ==
    \E a \in {x}, b \in {y} :
        LET t == a.n * b.d - b.n * a.d
        IN  IF (a.u = 0 /\ b.u = 0) \/ (t # 0 /\ Near(a) /\ Near(b)) THEN t < 0
            ELSE Do("FLess", <<a.f, b.f>>)

\* a == 0.  An n/d other than zero is 2^-31 away from it at least.
RZero(x) ==
    \E a \in {x} :
        IF a.u = 0 THEN a.n = 0
        ELSE IF a.n # 0 /\ Near(a) THEN FALSE
        ELSE Float(a).m = <<>>

\* int(math.Floor(a)), and int(a) for a >= 0.  An n/d that is no integer is
\* 2^-31 away from the integers at least.
RFloor(x) ==
    CHOOSE k \in {IF a.u = 0 \/ (a.d # 1 /\ Near(a)) THEN a.n \div a.d
                  ELSE Do("FFloorOf", <<a.f>>) : a \in {x}} : TRUE

\* the sum of a loop "sum += v" that starts at zero
RECURSIVE SumFrom(_, _, _)
SumFrom(acc, s, i) ==
    IF i > Len(s) THEN acc ELSE SumFrom(RAdd(acc, s[i]), s, i + 1)

SumSeq(s) == SumFrom(FromInt(0), s, 1)

----------------------------------------------------------------------------
\* resampleSeries (plot.go:313-365)

\* start := int(float64(i) * float64(len(values)) / float64(width))
blockStart(i, n, w) == RFloor(RDiv(RMul(FromInt(i), FromInt(n)), FromInt(w)))

\* mutant: every block has the fixed size len/width
blockEnd_fixedSize(i, n, w) == blockStart(i, n, w) + (n \div w)

\* end := int(float64(i+1) * ...); if end <= start {..}; if end > len(values) {..}
blockEnd(i, n, w) ==
    LET start == blockStart(i, n, w)
        end0  == RFloor(RDiv(RMul(FromInt(i + 1), FromInt(n)), FromInt(w)))
        end1  == IF end0 <= start THEN start + 1 ELSE end0
    IN  IF end1 > n THEN n ELSE end1

\* mutant: every block sum is divided by the nominal block size len/width
blockMean_nominalSize(vals, i, w) ==
    LET start == blockStart(i, Len(vals), w)
        end   == blockEnd(i, Len(vals), w)
    IN  RDiv(SumSeq(SubSeq(vals, start + 1, end)), FromInt(Len(vals) \div w))

\* out[i] = sum(values[start:end]) / float64(end-start)
blockMean(vals, i, w) ==
    LET start == blockStart(i, Len(vals), w)
        end   == blockEnd(i, Len(vals), w)
    IN  RDiv(SumSeq(SubSeq(vals, start + 1, end)), FromInt(end - start))

\* mutant: the two interpolation weights swapped
interpolate_swapped(vals, i, w) ==
    LET pos  == RDiv(RMul(FromInt(i), FromInt(Len(vals) - 1)), FromInt(w - 1))
        idx0 == RFloor(pos)
        idx  == IF idx0 < 0 THEN 0 ELSE idx0
    IN  IF idx >= Len(vals) - 1
        THEN At(vals, Len(vals) - 1)
        ELSE LET frac == RSub(pos, FromInt(idx))
             IN  RAdd(RMul(At(vals, idx), frac),
                      RMul(At(vals, idx + 1), RSub(FromInt(1), frac)))

\* one output of the linear interpolation loop
interpolate(vals, i, w) ==
    LET pos  == RDiv(RMul(FromInt(i), FromInt(Len(vals) - 1)), FromInt(w - 1))
        idx0 == RFloor(pos)
        idx  == IF idx0 < 0 THEN 0 ELSE idx0
    IN  IF idx >= Len(vals) - 1
        THEN At(vals, Len(vals) - 1)
        ELSE LET frac == RSub(pos, FromInt(idx))
             IN  RAdd(RMul(At(vals, idx), RSub(FromInt(1), frac)),
                      RMul(At(vals, idx + 1), frac))

\* mutant: the output is allocated but the values are never copied into it
copyValues_zero(vals) == [i \in 1..Len(vals) |-> FromInt(0)]

\* identity branch: out := make([]float64, len(values)); copy(out, values)
copyValues(vals) == [i \in 1..Len(vals) |-> vals[i]]

\* downsample branch: one block mean per output
downsample(vals, w) == [i \in 1..w |-> blockMean(vals, i - 1, w)]

\* mutant: the single value is stored once instead of width times
replicate_once(vals, w) == <<vals[1]>>

\* single-value branch: every output is values[0]
replicate(vals, w) == [i \in 1..w |-> vals[1]]

\* upsample branch: linear interpolation
upsample(vals, w) == [i \in 1..w |-> interpolate(vals, i - 1, w)]

resampleSeries(vals, w) ==
    IF Len(vals) = 0 \/ w <= 0 THEN <<>>
    ELSE IF Len(vals) = w THEN copyValues(vals)
    ELSE IF Len(vals) > w THEN downsample(vals, w)
    ELSE IF w = 1 THEN <<vals[1]>>
    ELSE IF Len(vals) = 1 THEN replicate(vals, w)
    ELSE upsample(vals, w)

----------------------------------------------------------------------------
\* drawLine (plot.go:417-450): the sequence of (x, y) handed to plot.

\* mutant: the loop ends on reaching the end point before plotting it
RECURSIVE drawLineLoop_dropEnd(_, _, _, _, _, _, _, _, _, _)
drawLineLoop_dropEnd(cx, cy, tx, ty, dx, dy, sx, sy, err, acc) ==
    LET plotted == Append(acc, <<cx, cy>>)
        e2      == 2 * err
    IN  IF cx = tx /\ cy = ty THEN acc
        ELSE IF e2 >= dy /\ cx = tx THEN plotted
        ELSE LET err1 == IF e2 >= dy THEN err + dy ELSE err
                 cx1  == IF e2 >= dy THEN cx + sx ELSE cx
             IN  IF e2 <= dx /\ cy = ty THEN plotted
                 ELSE LET err2 == IF e2 <= dx THEN err1 + dx ELSE err1
                          cy1  == IF e2 <= dx THEN cy + sy ELSE cy
                      IN  drawLineLoop_dropEnd(cx1, cy1, tx, ty, dx, dy, sx, sy,
                                               err2, plotted)

\* mutant: a pass of the loop that steps in x does not step in y as well
RECURSIVE drawLineLoop_axisSteps(_, _, _, _, _, _, _, _, _, _)
drawLineLoop_axisSteps(cx, cy, tx, ty, dx, dy, sx, sy, err, acc) ==
    LET plotted == Append(acc, <<cx, cy>>)
        e2      == 2 * err
    IN  IF cx = tx /\ cy = ty THEN plotted
        ELSE IF e2 >= dy /\ cx = tx THEN plotted
        ELSE IF e2 >= dy
        THEN drawLineLoop_axisSteps(cx + sx, cy, tx, ty, dx, dy, sx, sy,
                                    err + dy, plotted)
        ELSE IF e2 <= dx /\ cy = ty THEN plotted
        ELSE drawLineLoop_axisSteps(cx, cy + sy, tx, ty, dx, dy, sx, sy,
                                    err + dx, plotted)

RECURSIVE drawLineLoop(_, _, _, _, _, _, _, _, _, _)
drawLineLoop(cx, cy, tx, ty, dx, dy, sx, sy, err, acc) ==
    LET plotted == Append(acc, <<cx, cy>>)
        e2      == 2 * err
    IN  IF cx = tx /\ cy = ty THEN plotted
        ELSE IF e2 >= dy /\ cx = tx THEN plotted
        ELSE LET err1 == IF e2 >= dy THEN err + dy ELSE err
                 cx1  == IF e2 >= dy THEN cx + sx ELSE cx
             IN  IF e2 <= dx /\ cy = ty THEN plotted
                 ELSE LET err2 == IF e2 <= dx THEN err1 + dx ELSE err1
                          cy1  == IF e2 <= dx THEN cy + sy ELSE cy
                      IN  drawLineLoop(cx1, cy1, tx, ty, dx, dy, sx, sy,
                                       err2, plotted)

\* mutant: only the two endpoints are plotted, nothing in between
drawLine_endpointsOnly(ax, ay, bx, by) == <<<<ax, ay>>, <<bx, by>>>>

drawLine(ax, ay, bx, by) ==
    LET dx == Abs(bx - ax)
        sx == IF ax < bx THEN 1 ELSE -1
        dy == -Abs(by - ay)
        sy == IF ay < by THEN 1 ELSE -1
    IN  drawLineLoop(ax, ay, bx, by, dx, dy, sx, sy, dx + dy, <<>>)

----------------------------------------------------------------------------
\* Constants and tables of plot.go (plot.go:37-62).
defaultPlotHeight   == 10
minPlotWidth        == 10
terminalWidthBackup == 80
ESC                 == 27
axisLabelTop    == <<49, 48, 48, 37>>                     \* "100%"
axisLabelMid    == <<53, 48, 37>>                         \* "50%"
axisLabelBottom == <<48, 37>>                             \* "0%"
axisSeparator   == <<32, 9474, 32>>                       \* " | " (U+2502)
scaleNote ==                      \* "Scaled per series; see min/max below."
    <<83, 99, 97, 108, 101, 100, 32, 112, 101, 114, 32, 115, 101, 114, 105,
      101, 115, 59, 32, 115, 101, 101, 32, 109, 105, 110, 47, 109, 97, 120,
      32, 98, 101, 108, 111, 119, 46>>
colorReset == <<ESC, 91, 48, 109>>                        \* "\x1b[0m"

lineStyles ==
    << [name |-> <<115, 111, 108, 105, 100>>,           period |-> 1, on |-> 1],
       [name |-> <<100, 97, 115, 104, 101, 100>>,       period |-> 6, on |-> 3],
       [name |-> <<100, 111, 116, 116, 101, 100>>,      period |-> 4, on |-> 1],
       [name |-> <<100, 97, 115, 104, 100, 111, 116>>,  period |-> 8, on |-> 3] >>

colorPalette ==
    << [name |-> "cyan",    code |-> <<ESC, 91, 51, 54, 109>>],
       [name |-> "magenta", code |-> <<ESC, 91, 51, 53, 109>>],
       [name |-> "yellow",  code |-> <<ESC, 91, 51, 51, 109>>],
       [name |-> "green",   code |-> <<ESC, 91, 51, 50, 109>>],
       [name |-> "blue",    code |-> <<ESC, 91, 51, 52, 109>>] >>

----------------------------------------------------------------------------
\* Helpers of plotSeries.

\* mutant: the series without values are kept
filterSeries_keepAll(ss) == ss

\* filterSeries (plot.go:195-204)
filterSeries(ss) == SelectSeq(ss, LAMBDA s : Len(s.Values) # 0)

\* maxSeriesLen (plot.go:206-214)
RECURSIVE maxSeriesLen(_)
maxSeriesLen(ss) ==
    IF ss = <<>> THEN 0 ELSE Max2(Len(ss[1].Values), maxSeriesLen(Tail(ss)))

\* terminalWidth (plot.go:236-242); cols = 0 stands for a failed GetSize
terminalWidth(cols) == IF cols <= 0 THEN terminalWidthBackup ELSE cols

\* mutant: the width left of the gutter is not floored at minPlotWidth
PlotWidthFor_noFloor(total) ==
    IF total <= 0 THEN minPlotWidth
    ELSE LET axisWidth == Len(axisLabelTop) + Len(axisSeparator)
             w0 == total - axisWidth
         IN  IF w0 < 1 THEN 1 ELSE w0

\* PlotWidthFor (plot.go:220-234)
PlotWidthFor(total) ==
    IF total <= 0 THEN minPlotWidth
    ELSE LET axisWidth == Len(axisLabelTop) + Len(axisSeparator)
             w0 == total - axisWidth
             w1 == IF w0 < minPlotWidth THEN minPlotWidth ELSE w0
         IN  IF w1 < 1 THEN 1 ELSE w1

\* autoPlotWidth (plot.go:216-218)
autoPlotWidth(cols) == PlotWidthFor(terminalWidth(cols))

\* plot.go:85-87
resolveHeight(h) == IF h <= 0 THEN defaultPlotHeight ELSE h

\* mutant: a requested width below minPlotWidth is used as it is
resolveWidth_noFloor(w, cols) ==
    LET w0 == IF w <= 0 THEN autoPlotWidth(cols) ELSE w
    IN  IF w0 < 1 THEN 1 ELSE w0

\* plot.go:88-96
resolveWidth(w, cols) ==
    LET w0 == IF w <= 0 THEN autoPlotWidth(cols) ELSE w
        w1 == IF w0 < minPlotWidth THEN minPlotWidth ELSE w0
    IN  IF w1 < 1 THEN 1 ELSE w1

\* mutant: a forced colour request is honoured before NO_COLOR is looked at
shouldUseColor_forceFirst(noColor, force, tty) ==
    IF force THEN TRUE
    ELSE IF noColor # <<>> THEN FALSE
    ELSE tty

\* shouldUseColor (plot.go:244-256); tty: w is an *os.File on a terminal
shouldUseColor(noColor, force, tty) ==
    IF noColor # <<>> THEN FALSE
    ELSE IF force THEN TRUE
    ELSE tty

\* seriesMinMaxSingle (plot.go:367-385): the least and the greatest of
\* vals[lo..hi], the earlier value kept among equal ones; the range is halved
\* so that the nesting of the evaluation grows with the logarithm of its size
RECURSIVE minIn(_, _, _)
minIn(vals, lo, hi) ==
    IF lo >= hi THEN vals[lo]
    ELSE \* both halves are values before they are compared
         CHOOSE r \in {IF RLt(m2, m1) THEN m2 ELSE m1 :
                          m1 \in {minIn(vals, lo, (lo + hi) \div 2)},
                          m2 \in {minIn(vals, (lo + hi) \div 2 + 1, hi)}} : TRUE

RECURSIVE maxIn(_, _, _)
maxIn(vals, lo, hi) ==
    IF lo >= hi THEN vals[lo]
    ELSE CHOOSE r \in {IF RLt(m1, m2) THEN m2 ELSE m1 :
                          m1 \in {maxIn(vals, lo, (lo + hi) \div 2)},
                          m2 \in {maxIn(vals, (lo + hi) \div 2 + 1, hi)}} : TRUE

minOf(vals) == minIn(vals, 1, Len(vals))

maxOf(vals) == maxIn(vals, 1, Len(vals))

\* the values of a series, the inexact ones that share their n/d with another
\* value evaluated: the rounding orders them, and no comparison of the loop
\* evaluates an expression again
evaluated(vals) ==
    [k \in 1..Len(vals) |->
        IF vals[k].u # 0
              /\ \E j \in 1..Len(vals) : j # k /\ SameReal(vals[j], vals[k])
        THEN Keep(vals[k]) ELSE vals[k]]

seriesMinMaxSingle(vals) ==
    IF vals = <<>> THEN [min |-> FromInt(0), max |-> FromInt(0)]
    ELSE CHOOSE r \in {[min |-> minOf(vs), max |-> maxOf(vs)] :
                          vs \in {evaluated(vals)}} : TRUE

\* the constant 1e-9: the float64 nearest to 1/10^9
epsilon == <<"/", <<1>>, <<10^9>>>>

\* a < 1e-9 for a value n/d >= 0.  An exact value is below the constant iff
\* n * 10^9 < d; a float64 within 2^-34 of zero is below it, one within 2^-34
\* of 2^-29 or more is above it.
belowEpsilon(x) ==
    \E a \in {x} :
        IF a.u = 0 THEN a.n = 0 \/ (a.d - 1) \div a.n >= 10^9
        ELSE IF Near(a) /\ a.n = 0 THEN TRUE
        ELSE IF Near(a) /\ a.d \div a.n < 2^29 THEN FALSE
        ELSE Do("FLess", <<a.f, epsilon>>)

\* mutant: a degenerate range is not widened
seriesRange_noWiden(vals) == seriesMinMaxSingle(vals)

\* the range of one resampled series (plot.go:108-113)
seriesRange(vals) ==
    LET mm == seriesMinMaxSingle(vals)
    IN  IF belowEpsilon(RAbs(RSub(mm.max, mm.min)))
        THEN [min |-> RSub(mm.min, FromInt(1)), max |-> RAdd(mm.max, FromInt(1))]
        ELSE mm

\* int(math.Round(a)): half away from zero.  An n/d that is no odd multiple
\* of 1/2 is 2^-32 away from the odd multiples at least.
RRound(x) ==
    CHOOSE k \in {IF a.u = 0 \/ (a.d # 2 /\ Near(a))
                  THEN (IF a.n >= 0 THEN (2 * a.n + a.d) \div (2 * a.d)
                        ELSE -((2 * (-a.n) + a.d) \div (2 * a.d)))
                  ELSE Do("FRoundOf", <<a.f>>) : a \in {x}} : TRUE

\* math.Round((1 - (v - minVal) / 0) * float64(h - 1)) for h > 1: the
\* quotient is NaN for v == minVal, +Inf for v > minVal, -Inf for v < minVal
nonFinite(v, minVal) ==
    IF RLt(v, minVal) THEN "+Inf" ELSE IF RLt(minVal, v) THEN "-Inf" ELSE "NaN"

\* int(f) for a float64 f that no int holds.  Go leaves the result to the
\* implementation: the amd64 build yields the most negative int whatever f
\* is, the arm64 build 0 for NaN and the int nearest to an infinity.
intOfNonFinite(f) ==
    IF GOARCH = "amd64" THEN "minInt"
    ELSE CASE f = "NaN" -> "zero"
           [] f = "+Inf" -> "maxInt"
           [] f = "-Inf" -> "minInt"

\* the clamp of valueToRow (plot.go:393-398) on such an int
clampRow(k, h) == IF k = "maxInt" THEN h - 1 ELSE 0

\* mutant: the row grows with the value, the minimum is drawn at the top
valueToRow_inverted(v, minVal, maxVal, h) ==
    IF h <= 1 THEN 0
    ELSE IF RZero(RSub(maxVal, minVal)) THEN clampRow(intOfNonFinite(nonFinite(minVal, v)), h)
    ELSE LET pos == RDiv(RSub(v, minVal), RSub(maxVal, minVal))
             row == RRound(RMul(pos, FromInt(h - 1)))
         IN  IF row < 0 THEN 0 ELSE IF row >= h THEN h - 1 ELSE row

\* valueToRow (plot.go:387-400).  The code does not look at the range: a
\* zero range makes pos, and with it the rounded product, NaN or infinite.
\* plotSeries never hands a zero range over (plot.go:109-112).
valueToRow(v, minVal, maxVal, h) ==
    IF h <= 1 THEN 0
    ELSE IF RZero(RSub(maxVal, minVal)) THEN clampRow(intOfNonFinite(nonFinite(v, minVal)), h)
    ELSE LET pos == RDiv(RSub(v, minVal), RSub(maxVal, minVal))
             row == RRound(RMul(RSub(FromInt(1), pos), FromInt(h - 1)))
         IN  IF row < 0 THEN 0 ELSE IF row >= h THEN h - 1 ELSE row

\* mutant: the dash pattern is applied to the sample index, not the dot-x
shouldPlot_bySample(ls, x) ==
    IF ls.period <= 1 THEN TRUE
    ELSE (Abs(x) \div 2) % ls.period < ls.on

\* mutant: the dash is one dot-column longer
shouldPlot_inclusive(ls, x) ==
    IF ls.period <= 1 THEN TRUE
    ELSE Abs(x) % ls.period <= ls.on

\* lineStyle.shouldPlot (plot.go:303-311)
shouldPlot(ls, x) ==
    IF ls.period <= 1 THEN TRUE
    ELSE Abs(x) % ls.period < ls.on

\* brailleDotMask (plot.go:468-489)
brailleDotMask(x, y) ==
    CASE x = 0 /\ y = 0 -> 1
      [] x = 0 /\ y = 1 -> 2
      [] x = 0 /\ y = 2 -> 4
      [] x = 0 /\ y = 3 -> 64
      [] x = 1 /\ y = 0 -> 8
      [] x = 1 /\ y = 1 -> 16
      [] x = 1 /\ y = 2 -> 32
      [] x = 1 /\ y = 3 -> 128
      [] OTHER -> 0

\* brailleFromMask (plot.go:491-493)
brailleFromMask(mask) == 10240 + mask

\* a | b on uint8
RECURSIVE BitOr(_, _)
BitOr(a, b) ==
    IF a = 0 THEN b
    ELSE IF b = 0 THEN a
    ELSE 2 * BitOr(a \div 2, b \div 2) + (IF a % 2 = 1 \/ b % 2 = 1 THEN 1 ELSE 0)

\* makeCells (plot.go:273-279): cells[y][x], both 0-based in the code
makeCells(h, w) == [y \in 1..h |-> [x \in 1..w |-> 0]]

\* setBrailleDot (plot.go:452-466)
setBrailleDot(cells, x, y) ==
    IF y < 0 \/ x < 0 THEN cells
    ELSE LET cellY == y \div 4
             cellX == x \div 2
         IN  IF cellY >= Len(cells) THEN cells
             ELSE IF cellX >= Len(cells[cellY + 1]) THEN cells
             ELSE [cells EXCEPT ![cellY + 1][cellX + 1] =
                       BitOr(@, brailleDotMask(x % 2, y % 4))]

\* the plot callback of plotSeries applied to the calls drawLine makes
\* (plot.go:137-141).  The grid after one call is bound through a singleton
\* set, which is the identity, so that it is a value before the next call.
RECURSIVE plotDots(_, _, _)
plotDots(cells, style, ds) ==
    IF ds = <<>> THEN cells
    ELSE LET d    == ds[1]
             next == IF shouldPlot(style, d[1])
                     THEN setBrailleDot(cells, d[1], d[2]) ELSE cells
         IN  CHOOSE r \in {plotDots(c, style, Tail(ds)) : c \in {next}} : TRUE

\* row of sample x of a series after the clamp of plot.go:127-133
sampleRow(vals, mm, h, x) ==
    LET row == valueToRow(At(vals, x), mm.min, mm.max, h * 4)
    IN  IF row < 0 THEN 0 ELSE IF row >= h * 4 THEN h * 4 - 1 ELSE row

\* the calls of plot made for sample x of a series whose samples have the
\* dot-rows rows (plot.go:134-144)
sampleDots(rows, x) ==
    IF x > 0
    THEN drawLine((x - 1) * 2, At(rows, x - 1), x * 2, At(rows, x))
    ELSE <<<<x * 2, At(rows, x)>>>>

\* the loop over the samples of one series (plot.go:125-146), for the
\* samples lo..hi-1 in ascending order.  The range is halved so that the
\* nesting of the evaluation grows with the logarithm of the width.
RECURSIVE rasterizeFrom(_, _, _, _, _)
rasterizeFrom(cells, rows, style, lo, hi) ==
    IF lo >= hi THEN cells
    ELSE IF hi = lo + 1
    THEN CHOOSE r \in {plotDots(cells, style, sampleDots(rows, lo))} : TRUE
    ELSE LET mid == (lo + hi) \div 2
         IN  CHOOSE r \in {rasterizeFrom(c, rows, style, mid, hi) :
                               c \in {rasterizeFrom(cells, rows, style, lo, mid)}} : TRUE

\* style of the series with index si (plot.go:124)
styleOf(si) == lineStyles[(si % Len(lineStyles)) + 1]

\* the dot grid of series si (plot.go:116-147)
rasterize(vals, mm, si, h, w) ==
    CHOOSE r \in {rasterizeFrom(makeCells(h, w), rows, st, 0, Len(rows)) :
                     rows \in {[x \in 1..Len(vals) |-> sampleRow(vals, mm, h, x - 1)]},
                     st \in {styleOf(si)}} : TRUE

\* mutant: the mask of a later series replaces the mask composed so far
RECURSIVE composeFrom_overwrite(_, _, _, _, _, _)
composeFrom_overwrite(allCells, x, y, i, mask, colorIdx) ==
    IF i >= Len(allCells) THEN [mask |-> mask, colorIdx |-> colorIdx]
    ELSE LET cells == At(allCells, i)
         IN  IF y < 0 \/ y >= Len(cells)
             THEN composeFrom_overwrite(allCells, x, y, i + 1, mask, colorIdx)
             ELSE IF x < 0 \/ x >= Len(At(cells, y))
             THEN composeFrom_overwrite(allCells, x, y, i + 1, mask, colorIdx)
             ELSE LET cellMask == At(At(cells, y), x)
                  IN  IF cellMask = 0
                      THEN composeFrom_overwrite(allCells, x, y, i + 1, mask, colorIdx)
                      ELSE composeFrom_overwrite(allCells, x, y, i + 1,
                                       cellMask,
                                       IF colorIdx = -1 THEN i ELSE colorIdx)

\* composeCell (plot.go:281-301), over the series from index i on
RECURSIVE composeFrom(_, _, _, _, _, _)
composeFrom(allCells, x, y, i, mask, colorIdx) ==
    IF i >= Len(allCells) THEN [mask |-> mask, colorIdx |-> colorIdx]
    ELSE LET cells == At(allCells, i)
         IN  IF y < 0 \/ y >= Len(cells)
             THEN composeFrom(allCells, x, y, i + 1, mask, colorIdx)
             ELSE IF x < 0 \/ x >= Len(At(cells, y))
             THEN composeFrom(allCells, x, y, i + 1, mask, colorIdx)
             ELSE LET cellMask == At(At(cells, y), x)
                  IN  IF cellMask = 0
                      THEN composeFrom(allCells, x, y, i + 1, mask, colorIdx)
                      ELSE composeFrom(allCells, x, y, i + 1,
                                       BitOr(mask, cellMask),
                                       IF colorIdx = -1 THEN i ELSE colorIdx)

composeCell(allCells, x, y) == composeFrom(allCells, x, y, 0, 0, -1)

\* mutant: the middle label is put on row (height-1)/2
makeAxisLabels_midOff(h) ==
    [y \in 1..h |->
        IF h > 1 /\ y - 1 = h - 1 THEN axisLabelBottom
        ELSE IF h > 2 /\ y - 1 = (h - 1) \div 2 THEN axisLabelMid
        ELSE IF y - 1 = 0 THEN axisLabelTop
        ELSE <<>>]

\* makeAxisLabels (plot.go:258-271)
makeAxisLabels(h) ==
    [y \in 1..h |->
        IF h > 1 /\ y - 1 = h - 1 THEN axisLabelBottom
        ELSE IF h > 2 /\ y - 1 = h \div 2 THEN axisLabelMid
        ELSE IF y - 1 = 0 THEN axisLabelTop
        ELSE <<>>]

\* fmt "%*s": pad with spaces on the left up to n runes
padLeft(str, n) ==
    [i \in 1..(Max2(n, Len(str)) - Len(str)) |-> 32] \o str

\* decimal digits of a natural number
RECURSIVE digits(_)
digits(k) ==
    IF k < 10 THEN <<48 + k>> ELSE Append(digits(k \div 10), 48 + (k % 10))

\* the text of a number of hund hundredths
hundredthsText(neg, hund) ==
    (IF neg THEN <<45>> ELSE <<>>)
        \o digits(hund \div 100)
        \o <<46, 48 + ((hund \div 10) % 10), 48 + (hund % 10)>>

\* fmt "%.2f": the binary value to two decimals, to the nearest, a tie to the
\* even one, the sign of a negative value kept.  An n/d that is no odd
\* multiple of 1/200 is 2^-39 away from the odd multiples at least.
formatFloat2(v) ==
    CHOOSE txt \in
        {LET num  == Abs(a.n) * 100
             q    == num \div a.d
             r2   == 2 * (num % a.d)
             sure == \/ a.u = 0 /\ (a.n # 0 \/ Len(a.f) = 1)
                     \/ a.n # 0 /\ r2 # a.d /\ a.u <= 2^12
         IN  IF sure
             THEN hundredthsText(a.n < 0,
                      IF r2 > a.d \/ (r2 = a.d /\ q % 2 = 1) THEN q + 1 ELSE q)
             ELSE CHOOSE t \in {hundredthsText(x.neg, x.hund) :
                                   x \in {Do("FPrinted", <<a.f>>)}} : TRUE :
                 a \in {v}} : TRUE

\* "%s: min=%.2f max=%.2f" (plot.go:162)
minMaxLine(name, mm) ==
    name \o <<58, 32, 109, 105, 110, 61>> \o formatFloat2(mm.min)
         \o <<32, 109, 97, 120, 61>> \o formatFloat2(mm.max)

\* mutant: a coloured cell is not followed by the reset
RECURSIVE rowCellsFrom_noReset(_, _, _, _, _)
rowCellsFrom_noReset(allCells, colored, y, lo, hi) ==
    IF lo >= hi THEN <<>>
    ELSE IF hi = lo + 1
    THEN LET c  == composeCell(allCells, lo, y)
             ch == brailleFromMask(c.mask)
         IN  IF colored /\ c.colorIdx >= 0
             THEN colorPalette[(c.colorIdx % Len(colorPalette)) + 1].code \o <<ch>>
             ELSE <<ch>>
    ELSE rowCellsFrom_noReset(allCells, colored, y, lo, (lo + hi) \div 2)
             \o rowCellsFrom_noReset(allCells, colored, y, (lo + hi) \div 2, hi)

\* the cells of data row y for the columns lo..hi-1 in ascending order
\* (plot.go:170-181); the range is halved as in rasterizeFrom
RECURSIVE rowCellsFrom(_, _, _, _, _)
rowCellsFrom(allCells, colored, y, lo, hi) ==
    IF lo >= hi THEN <<>>
    ELSE IF hi = lo + 1
    THEN LET c  == composeCell(allCells, lo, y)
             ch == brailleFromMask(c.mask)
         IN  IF colored /\ c.colorIdx >= 0
             THEN colorPalette[(c.colorIdx % Len(colorPalette)) + 1].code
                      \o <<ch>> \o colorReset
             ELSE <<ch>>
    ELSE rowCellsFrom(allCells, colored, y, lo, (lo + hi) \div 2)
             \o rowCellsFrom(allCells, colored, y, (lo + hi) \div 2, hi)

\* one data row (plot.go:167-181)
dataRow(allCells, colored, h, w, y) ==
    padLeft(At(makeAxisLabels(h), y), Len(axisLabelTop)) \o axisSeparator
        \o rowCellsFrom(allCells, colored, y, 0, w)

\* mutant: the style named in the legend follows the palette index
RECURSIVE legendFrom_byPalette(_, _, _)
legendFrom_byPalette(ss, colored, i) ==
    IF i >= Len(ss) THEN <<>>
    ELSE LET styleName ==
                 lineStyles[((i % Len(colorPalette)) % Len(lineStyles)) + 1].name
             label0 == <<brailleFromMask(1), 32>> \o At(ss, i).Name
                           \o <<32, 40>> \o styleName \o <<41>>
             label  == IF colored
                       THEN colorPalette[(i % Len(colorPalette)) + 1].code
                                \o label0 \o colorReset
                       ELSE label0
         IN  (IF i > 0 THEN <<32, 32>> ELSE <<>>) \o label
                 \o legendFrom_byPalette(ss, colored, i + 1)

\* renderLegend (plot.go:402-415), the labels from series i on joined by "  "
RECURSIVE legendFrom(_, _, _)
legendFrom(ss, colored, i) ==
    IF i >= Len(ss) THEN <<>>
    ELSE LET styleName == lineStyles[(i % Len(lineStyles)) + 1].name
             label0 == <<brailleFromMask(1), 32>> \o At(ss, i).Name
                           \o <<32, 40>> \o styleName \o <<41>>
             label  == IF colored
                       THEN colorPalette[(i % Len(colorPalette)) + 1].code
                                \o label0 \o colorReset
                       ELSE label0
         IN  (IF i > 0 THEN <<32, 32>> ELSE <<>>) \o label
                 \o legendFrom(ss, colored, i + 1)

renderLegend(ss, colored) ==
    <<76, 101, 103, 101, 110, 100, 58, 32>> \o legendFrom(ss, colored, 0)

----------------------------------------------------------------------------
\* Inputs of the pure-function calls.

\* sample values of a series (finite float64 values)
Vals == {FromInt(0), FromInt(5), FromInt(10)}

SeqsUpTo(S, n) == UNION {[1..k -> S] : k \in 0..n}

Coords == (-MaxCoord)..MaxCoord

IdleResample ==
    /\ values = <<>> /\ width = 0 /\ out = <<>> /\ rpc = "idle"

IdleRow ==
    /\ rowValue = <<>> /\ rowMin = <<>> /\ rowMax = <<>> /\ rowHeight = 0
    /\ rowOut = 0 /\ qpc = "idle" /\ GOARCH = "amd64"

IdleLine ==
    /\ x0 = 0 /\ y0 = 0 /\ x1 = 0 /\ y1 = 0 /\ dots = <<>> /\ lpc = "idle"

IdleWidth ==
    /\ totalWidth = 0 /\ fitWidth = 0 /\ wpc = "idle"

IdleCurves ==
    /\ sessions = <<>> /\ window = 0 /\ perSession = <<>> /\ chars = <<>>
    /\ cpc = "idle" /\ curves = <<>>

IdleTop ==
    /\ aggs = <<>> /\ topN = 0 /\ top = <<>> /\ tpc = "idle"

\* the profile of a terminal without colour
asciiProfile == [name |-> "Ascii", palette |-> <<>>]

IdleStyled ==
    /\ targetRunes = <<>> /\ inputRunes = <<>> /\ cursorIndex = 0
    /\ colorProfile = asciiProfile /\ styledRunes = <<>> /\ bpc = "idle"

IdleUI ==
    /\ cfg = <<>> /\ store = <<>> /\ report = <<>> /\ errMsg = ""
    /\ filterMode = FALSE /\ filterInputs = <<>> /\ filterIndex = 0
    /\ filterError = "" /\ charSelection = <<>>
    /\ charSelectionCustom = FALSE /\ charInputMode = FALSE
    /\ charInput = <<>> /\ activeTab = 0 /\ upc = "idle"

IdleTyping ==
    /\ started = FALSE /\ startedAt = 0 /\ prevCorrectAt = 0
    /\ correctNonSpace = 0 /\ incorrectNonSpace = 0 /\ charStats = <<>>
    /\ hasLast = FALSE /\ lastWPM = <<>> /\ lastAcc = <<>>
    /\ allWPM = <<>> /\ allAcc = <<>>
    /\ allCorrect = 0 /\ allIncorrect = 0 /\ allDuration = 0
    /\ saved = <<>> /\ now = 0 /\ keyMsg = <<>> /\ ypc = "idle"

IdleWrap ==
    /\ wrapRunes = <<>> /\ wrapWidth = 0 /\ wrapLine = <<>> /\ lineWidth = 0
    /\ lastSpaceIdx = 0 /\ wrapI = 0 /\ wrapOut = <<>> /\ gpc = "idle"

IdleRest == IdleTop /\ IdleStyled /\ IdleUI /\ IdleTyping /\ IdleWrap

IdleLater == IdleCurves /\ IdleRest

IdlePlot ==
    /\ title = <<>> /\ series = <<>> /\ plotWidth = 0 /\ height = 0
    /\ forceColor = FALSE /\ NO_COLOR = <<>> /\ isTerminal = FALSE
    /\ termCols = 0
    /\ scaled = <<>> /\ minMax = <<>> /\ seriesCells = <<>>
    /\ useColor = FALSE /\ sink = <<>> /\ ppc = "idle" /\ calls = 0

----------------------------------------------------------------------------
\* A call of resampleSeries(values, width).
InitResample ==
    /\ values \in SeqsUpTo(Vals, MaxLen)
    /\ width \in 0..MaxWidth
    /\ out = <<>>
    /\ rpc = "call"
    /\ IdleRow /\ IdleLine /\ IdlePlot /\ IdleWidth /\ IdleLater

Resample ==
    /\ rpc = "call"
    /\ out' = resampleSeries(values, width)
    /\ rpc' = "done"
    /\ UNCHANGED <<values, width, qvars, lvars, pin, pout, wvars, later>>

SpecResample == InitResample /\ [][Resample]_vars

\* A call of valueToRow(v, minVal, maxVal, h) in a build for one of the
\* architectures; the range may be zero or negative.
InitRow ==
    /\ rowValue \in Vals /\ rowMin \in Vals /\ rowMax \in Vals
    /\ rowHeight \in 0..(4 * MaxHeight)
    /\ GOARCH \in {"amd64", "arm64"}
    /\ rowOut = 0
    /\ qpc = "call"
    /\ IdleResample /\ IdleLine /\ IdlePlot /\ IdleWidth /\ IdleLater

ValueToRow ==
    /\ qpc = "call"
    /\ rowOut' = valueToRow(rowValue, rowMin, rowMax, rowHeight)
    /\ qpc' = "done"
    /\ UNCHANGED <<rowValue, rowMin, rowMax, rowHeight, GOARCH, rvars, lvars,
                   pin, pout, wvars, later>>

SpecRow == InitRow /\ [][ValueToRow]_vars

\* A call of drawLine(x0, y0, x1, y1, plot) with a plot that records its calls.
InitLine ==
    /\ x0 \in Coords /\ y0 \in Coords /\ x1 \in Coords /\ y1 \in Coords
    /\ dots = <<>>
    /\ lpc = "call"
    /\ IdleResample /\ IdleRow /\ IdlePlot /\ IdleWidth /\ IdleLater

DrawLine ==
    /\ lpc = "call"
    /\ dots' = drawLine(x0, y0, x1, y1)
    /\ lpc' = "done"
    /\ UNCHANGED <<x0, y0, x1, y1, rvars, qvars, pin, pout, wvars, later>>

SpecLine == InitLine /\ [][DrawLine]_vars

\* A call of PlotWidthFor(totalWidth).
InitWidth ==
    /\ totalWidth \in (-MaxTotalWidth)..MaxTotalWidth
    /\ fitWidth = 0
    /\ wpc = "call"
    /\ IdleResample /\ IdleRow /\ IdleLine /\ IdlePlot /\ IdleLater

WidthFor ==
    /\ wpc = "call"
    /\ fitWidth' = PlotWidthFor(totalWidth)
    /\ wpc' = "done"
    /\ UNCHANGED <<totalWidth, rvars, qvars, lvars, pin, pout, later>>

SpecWidth == InitWidth /\ [][WidthFor]_vars

----------------------------------------------------------------------------
\* A call of plotSeries(w, title, series, width, height, forceColor), with
\* the environment it reads: NO_COLOR, whether w is a terminal, and the
\* terminal's columns (0: the size cannot be read).

PlotVals   == {FromInt(0), FromInt(5)}
PlotWidths == {5, 12}
Titles     == {<<>>, <<84, 101, 115, 116, 32, 80, 108, 111, 116>>}  \* "", "Test Plot"
SeriesName(i) == <<64 + i>>                                  \* "A", "B", ...

\* The first series of a call ranges over every sequence of up to
\* MaxSeriesLen values; the series after it are empty or falling.
OtherSeries == {<<>>, <<FromInt(5), FromInt(0)>>}

SeriesLists ==
    {<<>>} \cup
    UNION {{<<first>> \o rest : first \in SeqsUpTo(PlotVals, MaxSeriesLen),
                                rest \in [1..(k - 1) -> OtherSeries]} :
           k \in 1..MaxSeries}

\* the inputs of a call: the series and the arguments are drawn from the
\* given sets, NO_COLOR, the colour request and the sink from all their values
PlotCall(lists, hs) ==
    /\ title \in Titles
    /\ \E vs \in lists :
           series = [i \in 1..Len(vs) |-> [Name |-> SeriesName(i), Values |-> vs[i]]]
    /\ plotWidth \in PlotWidths
    /\ height \in hs
    /\ termCols = 0
    /\ scaled = <<>> /\ minMax = <<>> /\ seriesCells = <<>>
    /\ useColor = FALSE /\ sink = <<>> /\ ppc = "call" /\ calls = 0
    /\ IdleResample /\ IdleRow /\ IdleLine /\ IdleWidth /\ IdleLater

\* calls that differ in the series, the size and the title, written without
\* colour to a sink that is no terminal
InitPlot ==
    /\ PlotCall(SeriesLists, 0..MaxHeight)
    /\ forceColor = FALSE
    /\ NO_COLOR = <<>>
    /\ isTerminal = FALSE

\* calls with up to MaxStyled series, enough to cycle through the styles and
\* the palette: the odd series have one shape, the even series its reverse
Reverse(sq) == [i \in 1..Len(sq) |-> sq[Len(sq) + 1 - i]]

StyledShapes ==
    {<<FromInt(5)>>, <<FromInt(0), FromInt(5)>>, <<FromInt(5), FromInt(0)>>}

StyledLists ==
    {[i \in 1..k |-> IF i % 2 = 1 THEN sh ELSE Reverse(sh)] :
        k \in 1..MaxStyled, sh \in StyledShapes}
    \cup
    \* flat series with a rising one behind them: the last series owns cells
    {[i \in 1..k |-> IF i < k THEN <<FromInt(5)>> ELSE <<FromInt(0), FromInt(5)>>] :
        k \in 2..MaxStyled}
    \cup
    \* an empty series between two others: the third series survives second
    {<<sh, <<>>, Reverse(sh)>> : sh \in StyledShapes}

InitStyles ==
    /\ PlotCall(StyledLists, {1, 2})
    /\ forceColor \in BOOLEAN
    /\ NO_COLOR = <<>>
    /\ isTerminal = FALSE

\* calls with two to MaxSeries series that share a plot, each constant,
\* rising or falling, or with an empty series between two others
AltShapes ==
    {<<FromInt(0)>>, <<FromInt(5)>>, <<FromInt(0), FromInt(5)>>,
     <<FromInt(5), FromInt(0)>>}

SharedLists ==
    UNION {[1..k -> AltShapes] : k \in 2..MaxSeries}
    \cup {<<sh, <<>>, Reverse(sh)>> : sh \in AltShapes}

InitShared ==
    /\ PlotCall(SharedLists, {1, MaxHeight})
    /\ forceColor = FALSE
    /\ NO_COLOR = <<>>
    /\ isTerminal = FALSE

\* calls that differ in the requested size and in the terminal: a width of
\* 0 or less is taken from the terminal, whose size is unknown (0) or
\* SizedCols columns.  The series are flat; one rising series is drawn at
\* the explicit widths.
SizedCols == 19

SizedLists ==
    {[i \in 1..k |-> <<FromInt(5)>>] : k \in 1..MaxSeries}
        \cup {<<<<FromInt(0), FromInt(5)>>>>}

InitSized ==
    /\ title = <<>>
    /\ \E vs \in SizedLists :
           series = [i \in 1..Len(vs) |-> [Name |-> SeriesName(i), Values |-> vs[i]]]
    /\ plotWidth \in {-1, 0} \cup PlotWidths \cup {minPlotWidth}
    /\ height \in -1..MaxHeight
    /\ termCols \in {0, SizedCols}
    /\ plotWidth <= 0 => \A i \in 1..Len(series) : Len(series[i].Values) = 1
    /\ forceColor \in BOOLEAN
    /\ NO_COLOR = <<>>
    /\ isTerminal = FALSE
    /\ scaled = <<>> /\ minMax = <<>> /\ seriesCells = <<>>
    /\ useColor = FALSE /\ sink = <<>> /\ ppc = "call" /\ calls = 0
    /\ IdleResample /\ IdleRow /\ IdleLine /\ IdleWidth /\ IdleLater

\* calls that differ in the series and in everything shouldUseColor reads
InitColor ==
    /\ PlotCall(SeriesLists, {1})
    /\ forceColor \in BOOLEAN
    /\ NO_COLOR \in {<<>>, <<49>>}
    /\ isTerminal \in BOOLEAN

\* mutant: the trailing blank line is not written
renderLines_noBlank(ttl, sc, mm, cells, colored, h, w) ==
    (IF ttl # <<>> THEN <<ttl>> ELSE <<>>)
        \o <<scaleNote>>
        \o [i \in 1..Len(sc) |-> minMaxLine(sc[i].Name, mm[i])]
        \o [y \in 1..h |-> dataRow(cells, colored, h, w, y - 1)]
        \o <<renderLegend(sc, colored)>>

\* the lines plotSeries writes (plot.go:153-191)
renderLines(ttl, sc, mm, cells, colored, h, w) ==
    (IF ttl # <<>> THEN <<ttl>> ELSE <<>>)
        \o <<scaleNote>>
        \o [i \in 1..Len(sc) |-> minMaxLine(sc[i].Name, mm[i])]
        \o [y \in 1..h |-> dataRow(cells, colored, h, w, y - 1)]
        \o <<renderLegend(sc, colored)>>
        \o << <<>> >>

\* plot.go:98-104: every surviving series resampled to the width
resampleAll(fs, w) ==
    [i \in 1..Len(fs) |->
        [Name |-> fs[i].Name,
         Values |-> evaluated(resampleSeries(fs[i].Values, w))]]

\* mutant: all series are scaled to one range, that of all their values
rangeAll_shared(sc) ==
    LET RECURSIVE allValues(_)
        allValues(k) == IF k > Len(sc) THEN <<>>
                        ELSE sc[k].Values \o allValues(k + 1)
    IN  [i \in 1..Len(sc) |-> seriesRange(allValues(1))]

\* plot.go:106-114
rangeAll(sc) == [i \in 1..Len(sc) |-> seriesRange(sc[i].Values)]

\* plot.go:116-147
rasterizeAll(sc, mm, h, w) ==
    [i \in 1..Len(sc) |->
        IF Len(sc[i].Values) = 0 THEN makeCells(h, w)
        ELSE rasterize(sc[i].Values, mm[i], i - 1, h, w)]

\* What one call of plotSeries computes and writes (plot.go:74-193): the
\* resampled series, their ranges, their grids, the colour decision and the
\* lines written; written is FALSE when the call returns before any write.
\* Each intermediate result is bound through a singleton set.
plotDrawn(ttl, sc, mm, h, w, col) ==
    CHOOSE r \in {[written |-> TRUE, scaled |-> sc, minMax |-> mm,
                   seriesCells |-> cells, useColor |-> col,
                   lines |-> renderLines(ttl, sc, mm, cells, col, h, w)] :
                     cells \in {rasterizeAll(sc, mm, h, w)}} : TRUE

plotRanged(ttl, sc, h, w, col) ==
    CHOOSE r \in {plotDrawn(ttl, sc, mm, h, w, col) : mm \in {rangeAll(sc)}} : TRUE

plotSized(ttl, fs, h, w, col) ==
    CHOOSE r \in {plotRanged(ttl, sc, h, w, col) : sc \in {resampleAll(fs, w)}} : TRUE

plotSeriesOut(ttl, ss, pw, ht, force) ==
    LET fs == filterSeries(ss)
    IN  IF Len(fs) = 0 \/ maxSeriesLen(fs) = 0
        THEN [written |-> FALSE, scaled |-> <<>>, minMax |-> <<>>,
              seriesCells |-> <<>>, useColor |-> FALSE, lines |-> <<>>]
        ELSE CHOOSE r \in {plotSized(ttl, fs, h, w, col) :
                              h \in {resolveHeight(ht)},
                              w \in {resolveWidth(pw, termCols)},
                              col \in {shouldUseColor(NO_COLOR, force, isTerminal)}} : TRUE

\* the effect of one call of plotSeries on the state
plotSeries(ttl, ss, pw, ht, force) ==
    \E r \in {plotSeriesOut(ttl, ss, pw, ht, force)} :
        IF r.written
        THEN /\ scaled' = r.scaled
             /\ minMax' = r.minMax
             /\ seriesCells' = r.seriesCells
             /\ useColor' = r.useColor
             /\ sink' = sink \o r.lines
        ELSE UNCHANGED <<scaled, minMax, seriesCells, useColor, sink>>

\* PlotSeries / PlotSeriesWithColor (plot.go:64-72)
PlotSeries ==
    /\ ppc = "call"
    /\ plotSeries(title, series, plotWidth, height, forceColor)
    /\ ppc' = "done"
    /\ calls' = calls + 1
    /\ UNCHANGED <<pin, rvars, qvars, lvars, wvars, later>>

SpecPlot == InitPlot /\ [][PlotSeries]_vars

SpecColor == InitColor /\ [][PlotSeries]_vars

SpecStyles == InitStyles /\ [][PlotSeries]_vars

SpecSized == InitSized /\ [][PlotSeries]_vars

SpecShared == InitShared /\ [][PlotSeries]_vars

\* Calls of drawLine and of plotSeries, for properties that span both.
SpecRaster == (InitLine \/ InitPlot) /\ [][DrawLine \/ PlotSeries]_vars

----------------------------------------------------------------------------
\* The curve renderers of the stats package (part_006), which size the plot
\* with PlotWidthFor and hand it to PlotSeriesWithColor.

learningCurves    == <<76, 101, 97, 114, 110, 105, 110, 103, 32, 67, 117, 114, 118, 101, 115>>      \* "Learning Curves"
nameWPM           == <<87, 80, 77>>                          \* "WPM"
nameAccuracy      == <<65, 99, 99, 117, 114, 97, 99, 121>>   \* "Accuracy"
nameLatency       == <<76, 97, 116, 101, 110, 99, 121>>      \* "Latency"
perCharacterCurves ==                                   \* "Per-Character Curves"
    <<80, 101, 114, 45, 67, 104, 97, 114, 97, 99, 116, 101, 114, 32, 67, 117, 114, 118, 101, 115>>
charPrefix        == <<67, 104, 97, 114, 32>>                \* "Char "

\* SessionMetrics (part_006:44-60)
SessionMetrics(correct, incorrect, durationMs) ==
    IF durationMs <= 0
    THEN [wpm |-> FromInt(0), cpm |-> FromInt(0), accuracy |-> FromInt(0)]
    ELSE LET minutes == Rat(durationMs, 60000)
             den     == correct + incorrect
         IN  [wpm      |-> RDiv(Rat(correct, 5), minutes),
              cpm      |-> RDiv(FromInt(correct), minutes),
              accuracy |-> IF den > 0 THEN Rat(correct, den) ELSE FromInt(0)]

\* the variable sum of MovingAverage after the pass i of its loop:
\* sum += values[i]; if i >= window { sum -= values[i-window] }
RECURSIVE runningSum(_, _, _)
runningSum(vals, win, i) ==
    IF i < 0 THEN FromInt(0)
    ELSE LET added == RAdd(runningSum(vals, win, i - 1), At(vals, i))
         IN  IF i >= win THEN RSub(added, At(vals, i - win)) ELSE added

\* MovingAverage (part_006:62-82): the running sum holds the last window
\* values once i >= window, all values up to i before
MovingAverage(vals, win) ==
    IF win <= 1 \/ Len(vals) = 0 THEN [k \in 1..Len(vals) |-> vals[k]]
    ELSE [k \in 1..Len(vals) |->
             LET i   == k - 1
                 den == IF i >= win THEN win ELSE i + 1
             IN  RDiv(runningSum(vals, win, i), FromInt(den))]

\* width := 0; if totalWidth > 0 { width = PlotWidthFor(totalWidth) }
curveWidth(total) == IF total > 0 THEN PlotWidthFor(total) ELSE 0

\* the two series of RenderCurvesWithSize (part_006:169-186)
curveSeries(ss, win) ==
    LET m(i) == SessionMetrics(ss[i].Correct, ss[i].Incorrect, ss[i].DurationMs)
    IN  << [Name   |-> nameWPM,
            Values |-> MovingAverage([i \in 1..Len(ss) |-> m(i).wpm], win)],
           [Name   |-> nameAccuracy,
            Values |-> MovingAverage(
                           [i \in 1..Len(ss) |->
                               RMul(m(i).accuracy, FromInt(100))], win)] >>

\* the two series of one character of RenderCharCurvesWithSize
\* (part_006:275-300); perSession maps session ids to maps from characters
\* to aggregates
charSeries(ss, per, ch, win) ==
    LET Has(i) == ss[i].SessionID \in DOMAIN per
                      /\ ch \in DOMAIN per[ss[i].SessionID]
        agg(i) == per[ss[i].SessionID][ch]
        acc(i) == IF Has(i) /\ agg(i).Correct + agg(i).Incorrect > 0
                  THEN RMul(Rat(agg(i).Correct, agg(i).Correct + agg(i).Incorrect),
                            FromInt(100))
                  ELSE FromInt(0)
        lat(i) == IF Has(i) /\ agg(i).LatencyCount > 0
                  THEN Rat(agg(i).LatencySumMs, agg(i).LatencyCount)
                  ELSE FromInt(0)
    IN  << [Name   |-> nameAccuracy,
            Values |-> MovingAverage([i \in 1..Len(ss) |-> acc(i)], win)],
           [Name   |-> nameLatency,
            Values |-> MovingAverage([i \in 1..Len(ss) |-> lat(i)], win)] >>

\* the plots of the characters from index k on, one call of
\* PlotSeriesWithColor each
RECURSIVE charPlotsFrom(_, _, _, _, _, _, _, _)
charPlotsFrom(ss, per, chs, win, total, ht, force, k) ==
    IF k >= Len(chs) THEN <<>>
    ELSE <<plotSeriesOut(charPrefix \o At(chs, k),
                         charSeries(ss, per, At(chs, k), win),
                         curveWidth(total), ht, force)>>
             \o charPlotsFrom(ss, per, chs, win, total, ht, force, k + 1)

RECURSIVE Flatten(_)
Flatten(lists) == IF lists = <<>> THEN <<>> ELSE lists[1] \o Flatten(Tail(lists))

\* Inputs of the curve renderers.  Session i has SessionID i.
SessionKinds ==
    { [Correct |-> 25, Incorrect |-> 0,  DurationMs |-> 60000],
      [Correct |-> 0,  Incorrect |-> 25, DurationMs |-> 60000],
      [Correct |-> 0,  Incorrect |-> 0,  DurationMs |-> 60000],
      [Correct |-> 50, Incorrect |-> 0,  DurationMs |-> 0] }

SessionsOf(ks) ==
    [i \in 1..Len(ks) |->
        [SessionID |-> i, Correct |-> ks[i].Correct,
         Incorrect |-> ks[i].Incorrect, DurationMs |-> ks[i].DurationMs]]

CurveWidths  == {0, 5, 17, 19}
CurveWindows == {0, 2}
CurveHeights == {2, 10}

CharLists == { <<>>, << <<97>> >>, << <<97>>, <<98>> >> }          \* "", "a", "ab"

PerSessionMaps ==
    { <<>>,
      [id \in {1} |-> [c \in {<<97>>} |->
          [Correct |-> 1, Incorrect |-> 1, LatencySumMs |-> 10, LatencyCount |-> 2]]],
      [id \in {1, 2} |-> [c \in {<<97>>, <<98>>} |->
          IF id = 1 /\ c = <<97>>
          THEN [Correct |-> 1, Incorrect |-> 1, LatencySumMs |-> 10, LatencyCount |-> 2]
          ELSE [Correct |-> id, Incorrect |-> 0, LatencySumMs |-> 0, LatencyCount |-> 0]]] }

\* the state before a call of a curve renderer, on a terminal of 19 columns
CurveCall ==
    /\ window \in CurveWindows
    /\ totalWidth \in CurveWidths
    /\ forceColor \in BOOLEAN
    /\ NO_COLOR = <<>> /\ isTerminal = FALSE /\ termCols = 19
    /\ title = <<>> /\ series = <<>> /\ plotWidth = 0
    /\ scaled = <<>> /\ minMax = <<>> /\ seriesCells = <<>>
    /\ useColor = FALSE /\ sink = <<>> /\ ppc = "idle" /\ calls = 0
    /\ fitWidth = 0 /\ wpc = "idle" /\ curves = <<>>
    /\ IdleResample /\ IdleRow /\ IdleLine /\ IdleRest

\* A call of RenderCurvesWithSize(w, sessions, window, totalWidth, height, useColor).
InitCurves ==
    /\ cpc = "curves"
    /\ \E ks \in SeqsUpTo(SessionKinds, MaxSessions) : sessions = SessionsOf(ks)
    /\ height \in CurveHeights
    /\ perSession = <<>> /\ chars = <<>>
    /\ CurveCall

\* A call of RenderCharCurvesWithSize(w, sessions, perSession, chars, window,
\* totalWidth, height, useColor).
InitCharCurves ==
    /\ cpc = "charCurves"
    /\ \E k \in 0..MaxSessions :
           sessions = SessionsOf([i \in 1..k |->
                          [Correct |-> 25, Incorrect |-> 0, DurationMs |-> 60000]])
    /\ height = 2
    /\ perSession \in PerSessionMaps
    /\ chars \in CharLists
    /\ CurveCall

\* RenderCurvesWithSize (part_006:164-187)
RenderCurvesWithSize ==
    /\ cpc = "curves"
    /\ IF Len(sessions) = 0
       THEN UNCHANGED <<title, series, plotWidth, pout>>
       ELSE /\ title' = learningCurves
            /\ series' = curveSeries(sessions, window)
            /\ plotWidth' = curveWidth(totalWidth)
            /\ plotSeries(title', series', plotWidth', height, forceColor)
            /\ ppc' = "done"
            /\ calls' = calls + 1
    /\ cpc' = "done"
    /\ UNCHANGED <<height, forceColor, NO_COLOR, isTerminal, termCols,
                   sessions, window, perSession, chars, curves, rvars, qvars, lvars,
                   wvars, others>>

\* RenderCharCurvesWithSize (part_006:266-304)
RenderCharCurvesWithSize ==
    /\ cpc = "charCurves"
    /\ IF Len(chars) = 0 \/ Len(sessions) = 0
       THEN UNCHANGED <<title, series, plotWidth, pout>>
       ELSE \E plots \in {charPlotsFrom(sessions, perSession, chars, window,
                                        totalWidth, height, forceColor, 0)} :
            \E last \in {plots[Len(plots)]} :
                /\ title' = charPrefix \o chars[Len(chars)]
                /\ series' = charSeries(sessions, perSession, chars[Len(chars)], window)
                /\ plotWidth' = curveWidth(totalWidth)
                /\ scaled' = last.scaled
                /\ minMax' = last.minMax
                /\ seriesCells' = last.seriesCells
                /\ useColor' = last.useColor
                /\ sink' = sink \o <<perCharacterCurves>>
                               \o Flatten([k \in 1..Len(plots) |-> plots[k].lines])
                /\ ppc' = "done"
                /\ calls' = calls + Len(chars)
    /\ cpc' = "done"
    /\ UNCHANGED <<height, forceColor, NO_COLOR, isTerminal, termCols,
                   sessions, window, perSession, chars, curves, rvars, qvars, lvars,
                   wvars, others>>

\* plotHeight (statsui/model.go:33)
plotHeight == 10

\* strings.TrimRight(text, "\n") on the lines of a text, each ended by a
\* newline: the empty lines at the end go, and the newline of the last line
trimRightNewlines(lines) ==
    LET full == {i \in 1..Len(lines) : lines[i] # <<>>}
    IN  IF full = {} THEN <<>>
        ELSE SubSeq(lines, 1, CHOOSE i \in full : \A j \in full : i >= j)

\* the sessions of the overview: a session of 4 correct characters in 45 s,
\* whose WPM of 16/15 is no float64, and one of 25 in a minute
RenderKinds ==
    { [Correct |-> 4,  Incorrect |-> 1, DurationMs |-> 45000],
      [Correct |-> 25, Incorrect |-> 0, DurationMs |-> 60000] }

\* The stats UI before it renders the curves of its overview: the arguments
\* renderTabContents and renderOverview hand to renderCurves, and the
\* environment.  renderOverview returns "No sessions found." before the call
\* when there are no sessions (model.go:457-459), and renderTabContents
\* hands over 80 for a width of the UI that is not positive, as it is until
\* the first tea.WindowSizeMsg (model.go:449-452).  The writer is a buffer,
\* no terminal.
InitRender ==
    /\ cpc = "render"
    /\ \E ks \in SeqsUpTo(RenderKinds, MaxSessions) :
           /\ Len(ks) > 0
           /\ sessions = SessionsOf(ks)
    /\ window \in CurveWindows
    /\ \E w \in CurveWidths : totalWidth = (IF w <= 0 THEN 80 ELSE w)
    /\ NO_COLOR \in {<<>>, <<49>>} /\ isTerminal = FALSE /\ termCols = 19
    /\ perSession = <<>> /\ chars = <<>> /\ curves = <<>>
    /\ title = <<>> /\ series = <<>> /\ plotWidth = 0 /\ height = 0
    /\ forceColor = FALSE
    /\ scaled = <<>> /\ minMax = <<>> /\ seriesCells = <<>>
    /\ useColor = FALSE /\ sink = <<>> /\ ppc = "idle" /\ calls = 0
    /\ fitWidth = 0 /\ wpc = "idle"
    /\ IdleResample /\ IdleRow /\ IdleLine /\ IdleRest

\* renderCurves(sessions, window, width) (statsui/model.go:502-508):
\* RenderCurvesWithSize writes to a buffer of this call, at the height
\* plotHeight and with the colour forced, and the text of the buffer without
\* the newlines at its end is returned.  The UI renders after every refresh
\* and resize (model.go:133, 436, 740), any number of times in a run.
renderCurves ==
    /\ cpc \in {"render", "rendered"}
    /\ calls < MaxCalls
    /\ height' = plotHeight /\ forceColor' = TRUE
    /\ IF Len(sessions) = 0
       THEN /\ sink' = <<>>
            /\ UNCHANGED <<title, series, plotWidth, scaled, minMax,
                           seriesCells, useColor, ppc, calls>>
       ELSE /\ title' = learningCurves
            /\ series' = curveSeries(sessions, window)
            /\ plotWidth' = curveWidth(totalWidth)
            /\ \E r \in {plotSeriesOut(title', series', plotWidth',
                                       plotHeight, TRUE)} :
                   IF r.written
                   THEN /\ scaled' = r.scaled
                        /\ minMax' = r.minMax
                        /\ seriesCells' = r.seriesCells
                        /\ useColor' = r.useColor
                        /\ sink' = r.lines
                   ELSE /\ sink' = <<>>
                        /\ UNCHANGED <<scaled, minMax, seriesCells, useColor>>
            /\ ppc' = "done"
            /\ calls' = calls + 1
    /\ curves' = trimRightNewlines(sink')
    /\ cpc' = "rendered"
    /\ UNCHANGED <<NO_COLOR, isTerminal, termCols, sessions, window,
                   perSession, chars, rvars, qvars, lvars, wvars, others>>

\* The overview of the stats UI rendered again and again.
SpecRepeat == InitRender /\ [][renderCurves]_vars

\* Calls of PlotWidthFor and of the curve renderers.
SpecCurves ==
    /\ InitWidth \/ InitCurves \/ InitCharCurves
    /\ [][WidthFor \/ RenderCurvesWithSize \/ RenderCharCurvesWithSize]_vars

----------------------------------------------------------------------------
\* TopCharsByFrequency (msgpack.go:283-313).  A character is a Go string,
\* held as its sequence of code points; Go's < on strings compares bytes,
\* and UTF-8 keeps the order of the code points.

MaxAggs == 3
MaxTopN == 3

\* Go's a < b on strings
StrLess(a, b) ==
    \E k \in 1..(Len(a) + 1) :
        /\ \A j \in 1..(k - 1) : j <= Len(b) /\ a[j] = b[j]
        /\ \/ k > Len(a) /\ k <= Len(b)
           \/ k <= Len(a) /\ k <= Len(b) /\ a[k] < b[k]

\* the items of TopCharsByFrequency: character and total count
itemsOf(as) ==
    [i \in 1..Len(as) |->
        [ch |-> as[i].Char, total |-> as[i].Correct + as[i].Incorrect]]

less_tieDescending(x, y) ==
    IF x.total = y.total THEN StrLess(y.ch, x.ch) ELSE x.total > y.total

\* the less function handed to sort.Slice
less(x, y) ==
    IF x.total = y.total THEN StrLess(x.ch, y.ch) ELSE x.total > y.total

\* x put into the sorted sequence s, behind every element not after it
insertItem(x, s) ==
    LET k == Cardinality({j \in 1..Len(s) : ~less(x, s[j])})
    IN  SubSeq(s, 1, k) \o <<x>> \o SubSeq(s, k + 1, Len(s))

RECURSIVE sortSlice(_)
\* sort.Slice(items, less): the items in the order of less
sortSlice(items) ==
    IF Len(items) = 0 THEN <<>>
    ELSE \* the sorted head, then the last item put in its place
         CHOOSE r \in {insertItem(items[Len(items)], h) :
                         h \in {sortSlice(SubSeq(items, 1, Len(items) - 1))}} : TRUE

TopCharsByFrequency(as, n) ==
    IF n <= 0 \/ Len(as) = 0 THEN <<>>
    ELSE LET items == sortSlice(itemsOf(as))
             m     == IF n > Len(items) THEN Len(items) ELSE n
         IN  [i \in 1..m |-> items[i].ch]

\* character aggregates of the calls: the three of TestTopCharsByFrequency,
\* a two-rune string and a non-ASCII character with the total of "c"
AggKinds ==
    { [Char |-> <<98>>,     Correct |-> 3, Incorrect |-> 1],
      [Char |-> <<97>>,     Correct |-> 2, Incorrect |-> 2],
      [Char |-> <<99>>,     Correct |-> 1, Incorrect |-> 0],
      [Char |-> <<97, 98>>, Correct |-> 0, Incorrect |-> 1],
      [Char |-> <<233>>,    Correct |-> 1, Incorrect |-> 0] }

\* A call of TopCharsByFrequency(aggs, topN).
InitTop ==
    /\ aggs \in SeqsUpTo(AggKinds, MaxAggs)
    /\ topN \in -1..MaxTopN
    /\ top = <<>> /\ tpc = "call"
    /\ IdleResample /\ IdleRow /\ IdleLine /\ IdlePlot /\ IdleWidth /\ IdleCurves
    /\ IdleStyled /\ IdleUI /\ IdleTyping /\ IdleWrap

TopChars ==
    /\ tpc = "call"
    /\ top' = TopCharsByFrequency(aggs, topN)
    /\ tpc' = "done"
    /\ UNCHANGED <<aggs, topN, rvars, qvars, lvars, pin, pout, wvars, cvars, bvars,
                   uvars, typing>>

SpecTop == InitTop /\ [][TopChars]_vars

----------------------------------------------------------------------------
\* buildStyledRunes (part_002:16-102) and the styles of the typing view
\* (tui/model.go:63-70).  A lipgloss style is held as its foreground colour
\* and its underline flag.  The string style.Render returns is held as a
\* sequence of code points and of the escape sequences of the terminal; an
\* escape sequence is held as the attributes it sets, not as its bytes.

MaxTarget == 3

space  == 32
bullet == 8226                                            \* U+2022

correctStyle     == [fg |-> <<240, 240, 240>>, underline |-> FALSE]  \* #F0F0F0
incorrectStyle   == [fg |-> <<255, 77, 79>>,   underline |-> FALSE]  \* #FF4D4F
pendingStyle     == [fg |-> <<140, 140, 140>>, underline |-> FALSE]  \* #8C8C8C
currentWordStyle == [fg |-> <<200, 154, 58>>,  underline |-> FALSE]  \* #C89A3A

\* style.Underline(true)
Underline(style) == [style EXCEPT !.underline = TRUE]

cursorStyle == Underline(pendingStyle)

\* the foreground colours of the styles
styleColors ==
    <<correctStyle.fg, incorrectStyle.fg, pendingStyle.fg, currentWordStyle.fg>>

\* The ways a palette of the terminal shows the colours of the styles:
\* p[k] is the palette colour that stands for styleColors[k], the palette
\* colours being numbered in the order of their first use.  Which colours
\* of the styles share a palette colour is decided by the colour conversion
\* of the terminal library, which is no part of the program: every way is
\* taken.
Palettes ==
    {p \in [1..Len(styleColors) -> 1..Len(styleColors)] :
        /\ p[1] = 1
        /\ \A k \in 2..Len(styleColors) : \E j \in 1..(k - 1) : p[k] <= p[j] + 1}

\* The colour profiles of a terminal: Ascii has no colours and no
\* attributes, TrueColor shows every colour as it is, ANSI256 and ANSI show
\* the colour of their palette.
ColorProfiles ==
    {asciiProfile, [name |-> "TrueColor", palette |-> <<>>]}
        \cup {[name |-> n, palette |-> p] : n \in {"ANSI256", "ANSI"}, p \in Palettes}

\* the colour the profile shows for the colour fg of a style
shownColor(profile, fg) ==
    IF profile.name = "TrueColor" THEN fg
    ELSE profile.palette[CHOOSE k \in 1..Len(styleColors) : styleColors[k] = fg]

\* the escape sequence that resets the attributes
resetSequence == [reset |-> TRUE]

\* style.Render(text): on a terminal without colour (profile Ascii) the text
\* itself; else the text between the escape sequence that sets the
\* attributes of the style and the one that resets them.
Render(style, text, profile) ==
    IF profile.name = "Ascii" THEN text
    ELSE <<[reset |-> FALSE, underline |-> style.underline,
            fg |-> shownColor(profile, style.fg)]>>
             \o text \o <<resetSequence>>

RECURSIVE findWordsFrom(_, _, _, _)
\* the loop of findWords from index i, with the open word's start (or -1)
findWordsFrom(runes, i, start, words) ==
    IF i >= Len(runes)
    THEN IF start # -1
         THEN Append(words, [start |-> start, end |-> Len(runes)])
         ELSE words
    ELSE IF At(runes, i) = space
         THEN IF start # -1
              THEN findWordsFrom(runes, i + 1, -1,
                                 Append(words, [start |-> start, end |-> i]))
              ELSE findWordsFrom(runes, i + 1, -1, words)
         ELSE findWordsFrom(runes, i + 1, IF start = -1 THEN i ELSE start, words)

findWords(runes) == findWordsFrom(runes, 0, -1, <<>>)

\* the value standing for a nil *wordRange
nilWord == [start |-> -1, end |-> -1]

\* wordForCursor: the word holding the cursor, else the first word behind
\* it, else the last word; the first word for a negative cursor
wordForCursor(words, cursor) ==
    IF Len(words) = 0 THEN nilWord
    ELSE IF cursor < 0 THEN words[1]
    ELSE LET hits == {k \in 1..Len(words) :
                         \/ cursor >= words[k].start /\ cursor < words[k].end
                         \/ cursor < words[k].start}
         IN  IF hits = {} THEN words[Len(words)]
             ELSE words[CHOOSE k \in hits : \A j \in hits : k <= j]

\* the rune shown at index i: a bullet for a space typed wrongly
displayedAt(target, input, i) ==
    IF i < Len(input) /\ At(target, i) = space /\ At(input, i) # space
    THEN bullet ELSE At(target, i)

\* the style of the rune at index i, before the cursor underline
baseStyleAt(target, input, currentWord, i) ==
    IF i < Len(input)
    THEN IF At(target, i) = space /\ At(input, i) # space THEN incorrectStyle
         ELSE IF At(input, i) = At(target, i) THEN correctStyle
         ELSE incorrectStyle
    ELSE IF At(target, i) # space
         THEN IF /\ currentWord # nilWord
                 /\ i >= currentWord.start /\ i < currentWord.end
              THEN currentWordStyle ELSE pendingStyle
         ELSE pendingStyle

\* the style of the rune at index i
styleAt(target, input, currentWord, cursor, i) ==
    IF i = cursor /\ i >= Len(input)
    THEN Underline(baseStyleAt(target, input, currentWord, i))
    ELSE baseStyleAt(target, input, currentWord, i)

\* buildStyledRunes; the width field (go-runewidth) is left out
buildStyledRunes(target, input, cursor, profile) ==
    LET currentWord == wordForCursor(findWords(target), cursor)
    IN  [k \in 1..Len(target) |->
            [s       |-> Render(styleAt(target, input, currentWord, cursor, k - 1),
                                <<displayedAt(target, input, k - 1)>>, profile),
             isSpace |-> At(target, k - 1) = space]]

\* the cursor index View hands over (tui/model.go:123-131)
viewCursor(target, input) ==
    IF Len(input) < Len(target) THEN Len(input) ELSE -1

TargetRunes == {97, 98, space}
TypedRunes  == {97, 120, space}

\* A call of buildStyledRunes: by View, or with the cursor behind the input
\* as the tests call it.
InitStyled ==
    /\ targetRunes \in SeqsUpTo(TargetRunes, MaxTarget)
    /\ inputRunes \in SeqsUpTo(TypedRunes, MaxTarget)
    /\ Len(inputRunes) <= Len(targetRunes)
    /\ cursorIndex \in {viewCursor(targetRunes, inputRunes), Len(inputRunes)}
    /\ colorProfile \in ColorProfiles
    /\ styledRunes = <<>> /\ bpc = "call"
    /\ IdleResample /\ IdleRow /\ IdleLine /\ IdlePlot /\ IdleWidth /\ IdleCurves
    /\ IdleTop /\ IdleUI /\ IdleTyping /\ IdleWrap

BuildStyledRunes ==
    /\ bpc = "call"
    /\ styledRunes' = buildStyledRunes(targetRunes, inputRunes, cursorIndex,
                                       colorProfile)
    /\ bpc' = "done"
    /\ UNCHANGED <<targetRunes, inputRunes, cursorIndex, colorProfile,
                   rvars, qvars, lvars, pin, pout, wvars, cvars, tvars, uvars, typing>>

SpecStyled == InitStyled /\ [][BuildStyledRunes]_vars

----------------------------------------------------------------------------
\* The stats UI (statsui/model.go).  Texts are sequences of code points, a
\* date is <<year, month, day>>, a nil *time.Time is <<>>, error messages
\* are strings and "" is no error.

MaxWindow == 10       \* "=" is followed up to this curve window

tabOverview   == 0
tabCharTable  == 1
tabCharCurves == 2
tabCount      == 3    \* len(m.tabs)

\* unicode.IsSpace
IsSpace(r) ==
    r \in {9, 10, 11, 12, 13, 32, 133, 160, 5760, 8232, 8233, 8239, 8287, 12288}
          \cup (8192..8202)

\* strings.TrimSpace
TrimSpace(str) ==
    LET keep == {i \in 1..Len(str) : ~IsSpace(str[i])}
    IN  IF keep = {} THEN <<>>
        ELSE SubSeq(str, CHOOSE i \in keep : \A j \in keep : i <= j,
                         CHOOSE i \in keep : \A j \in keep : i >= j)

IsDigit(r) == r >= 48 /\ r <= 57

\* The values of Go's int.  An int has 64 bits on the platforms of GOARCH.
\* A value is held as [neg, mag], its sign and the limbs of its magnitude,
\* zero with neg FALSE; a sum, difference or product that no int holds wraps
\* around to the int congruent to it modulo 2^64.
signedInt(neg, mag) == [neg |-> neg /\ mag # <<>>, mag |-> mag]

\* the int k, |k| < 2^31
GoInt(k) == signedInt(k < 0, BNat(Abs(k)))

\* the number of an int of a magnitude below 2^31
IntOf(x) == IF x.neg THEN -BInt(x.mag) ELSE BInt(x.mag)

\* 2^63 and 2^64 in limbs: the fifth limb has the weight 2^60
two63 == <<0, 0, 0, 0, 8>>
two64 == <<0, 0, 0, 0, 16>>

\* math.MaxInt, 2^63 - 1
MaxGoInt == signedInt(FALSE, BSub(two63, <<1>>))

\* the number of the limbs a modulo 2^64: the four limbs below 2^60 and the
\* four low bits of the fifth
low64(a) ==
    BTrim(<<limbAt(a, 1), limbAt(a, 2), limbAt(a, 3), limbAt(a, 4),
            limbAt(a, 5) % 16>>)

\* the int a number x wraps around to: the one of -2^63..2^63 - 1 that is
\* congruent to x modulo 2^64
wrapInt(x) ==
    LET r == low64(x.mag)
    IN  IF BCmp(r, two63) < 0 THEN signedInt(x.neg, r)
        ELSE IF x.neg /\ r = two63 THEN signedInt(TRUE, r)
        ELSE signedInt(~x.neg, BSub(two64, r))

\* the sum of two numbers, not wrapped
intSum(a, b) ==
    IF a.neg = b.neg THEN signedInt(a.neg, BAdd(a.mag, b.mag))
    ELSE IF BCmp(a.mag, b.mag) >= 0 THEN signedInt(a.neg, BSub(a.mag, b.mag))
    ELSE signedInt(b.neg, BSub(b.mag, a.mag))

\* a + b and a - b of ints; the sum is formed before it is wrapped
IntAdd(a, b) == CHOOSE r \in {wrapInt(sum) : sum \in {intSum(a, b)}} : TRUE
IntSub(a, b) ==
    CHOOSE r \in {wrapInt(sum) :
                     sum \in {intSum(a, signedInt(~b.neg, b.mag))}} : TRUE

RECURSIVE remFrom(_, _, _)
\* the remainder that the limbs a[i], a[i + 1], ... leave when divided by k,
\* 0 < k <= Limb
remFrom(a, k, i) ==
    IF i > Len(a) THEN 0 ELSE (remFrom(a, k, i + 1) * Limb + a[i]) % k

\* a / k rounded down, 0 < k <= Limb: limb i of the quotient comes from
\* limb i of a under the remainder of the limbs above it
BDivSmall(a, k) ==
    BTrim([i \in 1..Len(a) |-> (remFrom(a, k, i + 1) * Limb + a[i]) \div k])

\* a * b, a / b and a % b of ints for a b of one limb, b # 0 in a / b and
\* a % b: the quotient is truncated toward zero and the remainder has the
\* sign of a
IntMul(a, b) ==
    CHOOSE r \in {wrapInt(signedInt(a.neg # b.neg, product)) :
                     product \in {BMulSmall(a.mag, BInt(b.mag))}} : TRUE
IntQuo(a, b) ==
    CHOOSE r \in {wrapInt(signedInt(a.neg # b.neg, quotient)) :
                     quotient \in {BDivSmall(a.mag, BInt(b.mag))}} : TRUE
IntRem(a, b) == signedInt(a.neg, BNat(remFrom(a.mag, BInt(b.mag), 1)))

\* a < b, a <= b of ints
IntLess(a, b) ==
    IF a.neg # b.neg THEN a.neg
    ELSE IF a.neg THEN BCmp(a.mag, b.mag) > 0
    ELSE BCmp(a.mag, b.mag) < 0
IntLeq(a, b) == ~IntLess(b, a)

RECURSIVE digitsValue(_)
\* the number a sequence of decimal digits stands for
digitsValue(ds) ==
    IF Len(ds) = 0 THEN 0
    ELSE 10 * digitsValue(SubSeq(ds, 1, Len(ds) - 1)) + (ds[Len(ds)] - 48)

RECURSIVE digitsLimbs(_)
\* the limbs of the number a sequence of decimal digits stands for; nine
\* digits are below 2^31
digitsLimbs(ds) ==
    IF Len(ds) <= 9 THEN BNat(digitsValue(ds))
    ELSE CHOOSE r \in {BAdd(tens, BNat(ds[Len(ds)] - 48)) :
                          tens \in {BMulSmall(front, 10) :
                                       front \in {digitsLimbs(SubSeq(ds, 1, Len(ds) - 1))}}} : TRUE

RECURSIVE limbsDigits(_)
\* the decimal digits of the number of the limbs a; two limbs are below 2^30
limbsDigits(a) ==
    IF Len(a) <= 2 THEN digits(BInt(a))
    ELSE CHOOSE r \in {Append(limbsDigits(q), 48 + remFrom(a, 10, 1)) :
                          q \in {BDivSmall(a, 10)}} : TRUE

\* the decimal digits of 2^63 - 1, the largest int of a 64-bit build
maxIntDigits ==
    <<57, 50, 50, 51, 51, 55, 50, 48, 51, 54, 56, 53, 52, 55, 55, 53, 56, 48, 55>>

\* the decimal digits of 2^63, the magnitude of the smallest int
minIntDigits == SubSeq(maxIntDigits, 1, Len(maxIntDigits) - 1) \o <<56>>

\* a digit sequence without its leading zeros
significant(ds) ==
    LET nz == {i \in 1..Len(ds) : ds[i] # 48}
    IN  IF nz = {} THEN <<>>
        ELSE SubSeq(ds, CHOOSE i \in nz : \A j \in nz : i <= j, Len(ds))

\* the number of the digits ds, negated when neg, does not fit an int:
\* strconv reports "value out of range"
outOfRange(ds, neg) ==
    LET sig   == significant(ds)
        limit == IF neg THEN minIntDigits ELSE maxIntDigits
    IN  \/ Len(sig) > Len(limit)
        \/ Len(sig) = Len(limit) /\ StrLess(limit, sig)

\* strconv.Atoi: an optional sign and at least one decimal digit, of a
\* number that fits an int (64 bits); anything else is an error
Atoi(str) ==
    LET signed == Len(str) > 0 /\ str[1] \in {43, 45}
        neg    == signed /\ str[1] = 45
        ds     == IF signed THEN Tail(str) ELSE str
    IN  IF Len(ds) = 0 \/ \E i \in 1..Len(ds) : ~IsDigit(ds[i])
        THEN [ok |-> FALSE, val |-> GoInt(0)]
        ELSE IF outOfRange(ds, neg)
        THEN [ok |-> FALSE, val |-> GoInt(0)]
        ELSE [ok |-> TRUE, val |-> signedInt(neg, digitsLimbs(ds))]

\* strconv.Itoa
Itoa(x) == IF x.neg THEN <<45>> \o limbsDigits(x.mag) ELSE limbsDigits(x.mag)

\* the days of a month
daysIn(m, y) ==
    IF m = 2
    THEN IF y % 4 = 0 /\ (y % 100 # 0 \/ y % 400 = 0) THEN 29 ELSE 28
    ELSE IF m \in {4, 6, 9, 11} THEN 30 ELSE 31

\* time.ParseInLocation("2006-01-02", str, time.Local): four digits, "-",
\* two digits, "-", two digits, nothing else, and a day the month has
ParseDate(str) ==
    IF /\ Len(str) = 10
       /\ \A i \in {1, 2, 3, 4, 6, 7, 9, 10} : IsDigit(str[i])
       /\ str[5] = 45 /\ str[8] = 45
    THEN LET y == digitsValue(SubSeq(str, 1, 4))
             m == digitsValue(SubSeq(str, 6, 7))
             d == digitsValue(SubSeq(str, 9, 10))
         IN  IF m >= 1 /\ m <= 12 /\ d >= 1 /\ d <= daysIn(m, y)
             THEN [ok |-> TRUE, date |-> <<y, m, d>>]
             ELSE [ok |-> FALSE, date |-> <<>>]
    ELSE [ok |-> FALSE, date |-> <<>>]

\* digits of k, padded with zeros on the left up to n digits
zeroPad(k, n) ==
    [i \in 1..(Max2(n, Len(digits(k))) - Len(digits(k))) |-> 48] \o digits(k)

\* t.Format("2006-01-02")
FormatDate(t) == zeroPad(t[1], 4) \o <<45>> \o zeroPad(t[2], 2) \o <<45>> \o zeroPad(t[3], 2)

\* the fraction of a second in the layout ".999999999": nothing for a whole
\* second, else "." and the nine digits of the nanoseconds without the zeros
\* at their end
fraction(ns) ==
    IF ns = 0 THEN <<>>
    ELSE LET ds == zeroPad(ns, 9)
             nz == {i \in 1..Len(ds) : ds[i] # 48}
         IN  <<46>> \o SubSeq(ds, 1, CHOOSE i \in nz : \A j \in nz : i >= j)

\* t.Format(time.RFC3339Nano) of the time <<year, month, day, hour, minute,
\* second, nanosecond>>; the zone of the times is UTC, written "Z"
FormatNano(t) ==
    FormatDate(t) \o <<84>> \o zeroPad(t[4], 2) \o <<58>> \o zeroPad(t[5], 2)
        \o <<58>> \o zeroPad(t[6], 2) \o fraction(t[7]) \o <<90>>

\* the time ParseInLocation gives for a date: its midnight
midnight(date) == date \o <<0, 0, 0, 0>>

\* "ended_at >= ?" on the TEXT column (part_003:200): the texts are compared
\* byte by byte
textGeq(a, b) == ~StrLess(a, b)

\* nextCurveWindow (model.go:937-945), in the arithmetic of int: n + 5 and
\* ((n / 5) + 1) * 5 wrap around for the n within 5 of the largest int
nextCurveWindow(n) ==
    IF IntLess(n, GoInt(5)) THEN GoInt(5)
    ELSE IF IntRem(n, GoInt(5)) = GoInt(0) THEN IntAdd(n, GoInt(5))
    ELSE CHOOSE r \in {IntMul(above, GoInt(5)) :
                          above \in {IntAdd(fives, GoInt(1)) :
                                        fives \in {IntQuo(n, GoInt(5))}}} : TRUE

\* prevCurveWindow (model.go:947-955)
prevCurveWindow(n) ==
    IF IntLeq(n, GoInt(5)) THEN GoInt(1)
    ELSE IF IntRem(n, GoInt(5)) = GoInt(0) THEN IntSub(n, GoInt(5))
    ELSE CHOOSE r \in {IntMul(fives, GoInt(5)) :
                          fives \in {IntQuo(n, GoInt(5))}} : TRUE

\* setInputsFromConfig: the texts of the four fields for a configuration
setInputsFromConfig(c) ==
    << TrimSpace(c.Lang),
       IF c.Since # <<>> THEN FormatDate(c.Since) ELSE <<>>,
       IF IntLess(GoInt(0), c.Last) THEN Itoa(c.Last) ELSE <<>>,
       Itoa(c.CurveWindow) >>

\* setFilterIndex: the index wraps around the fields
setFilterIndex(idx, count) ==
    IF idx < 0 THEN count - 1
    ELSE IF idx >= count THEN 0
    ELSE idx

errSince     == "invalid since date (expected YYYY-MM-DD)"
errLast      == "invalid last value (use 0 or positive integer)"
errWindowInt == "invalid curve window (use integer)"
errWindowMin == "invalid curve window (use integer >= 1)"

\* mutant: the fields that validate are stored before a later field fails
applyFilter_partial(inputs, c) ==
    LET lang        == TrimSpace(inputs[1])
        sinceInput  == TrimSpace(inputs[2])
        lastInput   == TrimSpace(inputs[3])
        windowInput == TrimSpace(inputs[4])
        parsedSince == ParseDate(sinceInput)
        parsedLast  == Atoi(lastInput)
        parsedWindow == Atoi(windowInput)
    IN  IF sinceInput # <<>> /\ ~parsedSince.ok
        THEN [err |-> errSince, cfg |-> [c EXCEPT !.Lang = lang]]
        ELSE IF lastInput # <<>> /\ (~parsedLast.ok \/ IntLess(parsedLast.val, GoInt(0)))
        THEN [err |-> errLast, cfg |-> [c EXCEPT !.Lang = lang]]
        ELSE IF windowInput # <<>> /\ ~parsedWindow.ok
        THEN [err |-> errWindowInt, cfg |-> [c EXCEPT !.Lang = lang]]
        ELSE IF windowInput # <<>> /\ IntLess(parsedWindow.val, GoInt(1))
        THEN [err |-> errWindowMin, cfg |-> [c EXCEPT !.Lang = lang]]
        ELSE [err |-> "",
              cfg |-> [Lang        |-> lang,
                       Since       |-> IF sinceInput # <<>> THEN parsedSince.date ELSE <<>>,
                       Last        |-> IF lastInput # <<>> THEN parsedLast.val ELSE GoInt(0),
                       CurveWindow |-> IF windowInput # <<>> THEN parsedWindow.val ELSE GoInt(0),
                       Chars       |-> <<>>]]

\* applyFilter (model.go:775-817): the error and the configuration it leaves
applyFilter(inputs, c) ==
    LET lang        == TrimSpace(inputs[1])
        sinceInput  == TrimSpace(inputs[2])
        lastInput   == TrimSpace(inputs[3])
        windowInput == TrimSpace(inputs[4])
        parsedSince == ParseDate(sinceInput)
        parsedLast  == Atoi(lastInput)
        parsedWindow == Atoi(windowInput)
    IN  IF sinceInput # <<>> /\ ~parsedSince.ok
        THEN [err |-> errSince, cfg |-> c]
        ELSE IF lastInput # <<>> /\ (~parsedLast.ok \/ IntLess(parsedLast.val, GoInt(0)))
        THEN [err |-> errLast, cfg |-> c]
        ELSE IF windowInput # <<>> /\ ~parsedWindow.ok
        THEN [err |-> errWindowInt, cfg |-> c]
        ELSE IF windowInput # <<>> /\ IntLess(parsedWindow.val, GoInt(1))
        THEN [err |-> errWindowMin, cfg |-> c]
        ELSE [err |-> "",
              cfg |-> [Lang        |-> lang,
                       Since       |-> IF sinceInput # <<>> THEN parsedSince.date ELSE <<>>,
                       Last        |-> IF lastInput # <<>> THEN parsedLast.val ELSE GoInt(0),
                       CurveWindow |-> IF windowInput # <<>> THEN parsedWindow.val ELSE GoInt(0),
                       Chars       |-> <<>>]]

RECURSIVE orderByEndedAt(_)
\* "ORDER BY ended_at ASC" (part_003:206): the rows by the text of ended_at,
\* rows of one text by id, the order the index on ended_at (part_003:74)
\* keeps them in
orderByEndedAt(rows) ==
    IF rows = <<>> THEN <<>>
    ELSE LET before(r, q) ==
                 \/ StrLess(r.ended_at, q.ended_at)
                 \/ r.ended_at = q.ended_at /\ r.SessionID < q.SessionID
             first == CHOOSE i \in 1..Len(rows) :
                          \A j \in 1..Len(rows) : j = i \/ before(rows[i], rows[j])
         IN  <<rows[first]>>
                 \o orderByEndedAt(SubSeq(rows, 1, first - 1)
                                       \o SubSeq(rows, first + 1, Len(rows)))

\* Store.ListSessions (part_003:192-236): the sessions of the language, if
\* one is set, whose ended_at is not below the text of Since, if set, in the
\* order of ended_at
ListSessions(st, c) ==
    orderByEndedAt(
        SelectSeq(st.Sessions,
                  LAMBDA s : /\ (c.Lang # <<>> => s.Lang = c.Lang)
                             /\ (c.Since # <<>> =>
                                     textGeq(s.ended_at,
                                             FormatNano(midnight(c.Since))))))

\* the last k sessions when Last is set (report.go:25-27)
lastOf(ss, k) ==
    IF IntLess(GoInt(0), k) /\ IntLess(k, GoInt(Len(ss)))
    THEN SubSeq(ss, Len(ss) - IntOf(k) + 1, Len(ss))
    ELSE ss

\* sessionIDs (report.go:48-54)
sessionIDs(ss) == [i \in 1..Len(ss) |-> ss[i].SessionID]

\* lastSessionIDs (report.go:56-61)
lastSessionIDs(ss, w) ==
    IF IntLeq(w, GoInt(0)) \/ IntLeq(GoInt(Len(ss)), w) THEN sessionIDs(ss)
    ELSE sessionIDs(SubSeq(ss, Len(ss) - IntOf(w) + 1, Len(ss)))

RECURSIVE sortedChars(_)
\* the characters of a set, ascending
sortedChars(cs) ==
    IF cs = {} THEN <<>>
    ELSE LET c == CHOOSE x \in cs : \A y \in cs : x = y \/ StrLess(x, y)
         IN  <<c>> \o sortedChars(cs \ {c})

RECURSIVE sumOver(_, _, _)
\* the sum of one count of character ch over the rows
sumOver(rows, ch, field) ==
    IF rows = <<>> THEN 0
    ELSE (IF rows[1].Char = ch THEN rows[1][field] ELSE 0)
             + sumOver(Tail(rows), ch, field)

RECURSIVE charRows(_, _)
\* the rows of session_char_stats of the sessions with the given ids
charRows(ss, ids) ==
    IF ss = <<>> THEN <<>>
    ELSE (IF \E i \in 1..Len(ids) : ids[i] = ss[1].SessionID
          THEN ss[1].Chars ELSE <<>>) \o charRows(Tail(ss), ids)

\* Store.ListCharAggregatesForSessions (part_003:239-277): the counts summed
\* per character.  SQL leaves the order of the groups open; they are given
\* by character, and TopCharsByFrequency does not depend on their order.
ListCharAggregatesForSessions(st, ids) ==
    IF Len(ids) = 0 THEN <<>>
    ELSE LET rows == charRows(st.Sessions, ids)
             cs   == sortedChars({rows[i].Char : i \in 1..Len(rows)})
         IN  [k \in 1..Len(cs) |->
                 [Char      |-> cs[k],
                  Correct   |-> sumOver(rows, cs[k], "Correct"),
                  Incorrect |-> sumOver(rows, cs[k], "Incorrect")]]

\* Report{}
emptyReport ==
    [Sessions |-> <<>>, WindowSessionIDs |-> <<>>, CharAggsAll |-> <<>>,
     CharAggsWindow |-> <<>>]

\* BuildReport (report.go:20-46)
BuildReport(st, c) ==
    IF st.Fails THEN [err |-> "store error", report |-> emptyReport]
    ELSE LET ss        == lastOf(ListSessions(st, c), c.Last)
             windowIDs == lastSessionIDs(ss, c.CurveWindow)
         IN  [err |-> "",
              report |-> [Sessions         |-> sessionIDs(ss),
                          WindowSessionIDs |-> windowIDs,
                          CharAggsAll      |->
                              ListCharAggregatesForSessions(st, sessionIDs(ss)),
                          CharAggsWindow   |->
                              ListCharAggregatesForSessions(st, windowIDs)]]


\* refreshReport (model.go:414-438): the error message, the report and the
\* character selection it leaves
refreshReport(st, c, rep, sel, custom) ==
    LET b == BuildReport(st, c)
    IN  IF b.err # ""
        THEN [errMsg |-> b.err, report |-> rep, charSelection |-> sel]
        ELSE [errMsg |-> "", report |-> b.report,
              charSelection |->
                  IF ~custom THEN TopCharsByFrequency(b.report.CharAggsAll, 5)
                  ELSE sel]

RECURSIVE splitComma(_, _)
\* strings.Split(str, ","), with the part being read
splitComma(str, part) ==
    IF str = <<>> THEN <<part>>
    ELSE IF str[1] = 44 THEN <<part>> \o splitComma(Tail(str), <<>>)
    ELSE splitComma(Tail(str), Append(part, str[1]))

\* parseChars (model.go:887-909)
parseChars(input) ==
    LET str == TrimSpace(input)
    IN  IF str = <<>> THEN <<>>
        ELSE IF \E i \in 1..Len(str) : str[i] = 44
        THEN LET parts == splitComma(str, <<>>)
                 trimmed == [i \in 1..Len(parts) |-> TrimSpace(parts[i])]
             IN  SelectSeq(trimmed, LAMBDA part : part # <<>>)
        ELSE [i \in 1..Len(str) |-> <<str[i]>>]

\* parseRawChars (model.go:911-920)
parseRawChars(input) ==
    LET kept == SelectSeq(input, LAMBDA r : ~IsSpace(r))
    IN  [i \in 1..Len(kept) |-> <<kept[i]>>]

\* normalizeCharInput (model.go:922-935)
normalizeCharInput(input) == SelectSeq(input, LAMBDA r : r # 44 /\ ~IsSpace(r))

RECURSIVE joinAll(_)
\* strings.Join(strs, "")
joinAll(strs) == IF strs = <<>> THEN <<>> ELSE strs[1] \o joinAll(Tail(strs))

\* applyCharInput (model.go:819-834): the selection it leaves
applyCharInput(input, rep) ==
    LET raw   == normalizeCharInput(input)
        parsed == parseRawChars(raw)
    IN  IF raw = <<>> \/ Len(parsed) = 0
        THEN [custom |-> FALSE,
              selection |-> TopCharsByFrequency(rep.CharAggsAll, 5)]
        ELSE [custom |-> TRUE, selection |-> parsed]

\* the text with the runes rs put in at position p (textinput, key runes)
insertAt(text, p, rs) == SubSeq(text, 1, p) \o rs \o SubSeq(text, p + 1, Len(text))

\* the text without the rune before position p (textinput, backspace)
deleteBefore(text, p) == SubSeq(text, 1, p - 1) \o SubSeq(text, p + 1, Len(text))

\* The stores of the runs: three sessions, the same with a store whose
\* queries fail, and no sessions.  The rows are in the order of their ids;
\* the first one ended last, the second one half a second after a midnight.
storedSessions ==
    << [SessionID |-> 1, Lang |-> <<101>>,
        ended_at |-> FormatNano(<<2024, 3, 2, 18, 0, 0, 0>>),
        Chars |-> << [Char |-> <<97>>,  Correct |-> 3, Incorrect |-> 1],
                     [Char |-> <<98>>,  Correct |-> 2, Incorrect |-> 2],
                     [Char |-> <<99>>,  Correct |-> 1, Incorrect |-> 0] >>],
       [SessionID |-> 2, Lang |-> <<100>>,
        ended_at |-> FormatNano(<<2024, 2, 29, 0, 0, 0, 5 * 10^8>>),
        Chars |-> << [Char |-> <<103>>, Correct |-> 5, Incorrect |-> 0] >>],
       [SessionID |-> 3, Lang |-> <<101>>,
        ended_at |-> FormatNano(<<2024, 2, 28, 9, 30, 0, 0>>),
        Chars |-> << [Char |-> <<97>>,  Correct |-> 1, Incorrect |-> 0],
                     [Char |-> <<100>>, Correct |-> 0, Incorrect |-> 1],
                     [Char |-> <<101>>, Correct |-> 1, Incorrect |-> 0],
                     [Char |-> <<102>>, Correct |-> 2, Incorrect |-> 0] >>] >>

Stores ==
    { [Fails |-> FALSE, Sessions |-> storedSessions],
      [Fails |-> TRUE,  Sessions |-> storedSessions],
      [Fails |-> FALSE, Sessions |-> <<>>] }

\* The configurations the UI is started with: the plain one, and one with a
\* language, a session limit and the characters "a, b".
StartConfigs ==
    { [Lang |-> <<>>, Since |-> <<>>, Last |-> GoInt(0),
       CurveWindow |-> GoInt(5),
       Chars |-> <<>>],
      [Lang |-> <<101>>, Since |-> <<>>, Last |-> GoInt(1),
       CurveWindow |-> GoInt(1),
       Chars |-> <<97, 44, 32, 98>>] }

\* The texts the fields of the settings form are edited to.
langTexts   == { <<>>, <<101>>, <<32, 101>> }
sinceTexts  ==
    { <<>>,
      <<50, 48, 50, 52, 45, 48, 50, 45, 50, 57>>,         \* "2024-02-29"
      <<50, 48, 50, 52, 45, 48, 50, 45, 51, 48>> }        \* "2024-02-30"
\* "99999999999999999999", a number no int holds
hugeNumber  == [i \in 1..(Len(maxIntDigits) + 1) |-> 57]
lastTexts   == { <<>>, <<49>>, <<45, 49>>, <<120>>, hugeNumber }
windowTexts == { <<>>, <<48>>, <<49, 48>>, <<120>>, hugeNumber }

SettingsTexts  == <<langTexts, sinceTexts, lastTexts, windowTexts>>
\* only the language is edited
LanguageTexts == <<{ <<>>, <<101>> }, {}, {}, {}>>

\* The runes of one key message: a typed rune or a pasted text.
FilterPayloads ==
    { <<32>>, <<101>>, <<49>>, <<45>>, <<120>>, <<48>>,
      <<50, 48, 50, 52, 45, 48, 50, 45, 50, 57>>,
      <<50, 48, 50, 52, 45, 48, 50, 45, 51, 48>>,
      hugeNumber, maxIntDigits }
CharPayloads == { <<97>>, <<98>>, <<44>>, <<32>>, <<98, 32, 97>> }

MaxCharInput == 2     \* runes are typed up to this length of the input

\* NewModel (model.go:103-119)
InitUI ==
    /\ store \in Stores
    /\ cfg \in StartConfigs
    /\ \E sel \in {parseChars(cfg.Chars)} :
       \E r \in {refreshReport(store, cfg, emptyReport, sel, Len(sel) > 0)} :
           /\ charSelectionCustom = (Len(sel) > 0)
           /\ errMsg = r.errMsg
           /\ report = r.report
           /\ charSelection = r.charSelection
    /\ filterInputs = setInputsFromConfig(cfg)
    /\ filterMode = FALSE /\ filterIndex = 0 /\ filterError = ""
    /\ charInputMode = FALSE /\ charInput = <<>>
    /\ activeTab = tabOverview
    /\ upc = "run"
    /\ IdleResample /\ IdleRow /\ IdleLine /\ IdlePlot /\ IdleWidth /\ IdleCurves
    /\ IdleTop /\ IdleStyled /\ IdleTyping /\ IdleWrap

\* the variables outside the stats UI
outsideUI == <<rvars, qvars, lvars, pin, pout, wvars, cvars, tvars, bvars, typing>>

\* refreshReport with the configuration c
Refresh(c) ==
    \E r \in {refreshReport(store, c, report, charSelection, charSelectionCustom)} :
        /\ errMsg' = r.errMsg
        /\ report' = r.report
        /\ charSelection' = r.charSelection

\* no form is open: the keys go to the tabs
Browsing == upc = "run" /\ ~filterMode /\ ~charInputMode

\* Update, ctrl-c or "q" (model.go:136-138)
Quit ==
    /\ upc = "run"
    /\ upc' = "quit"
    /\ UNCHANGED <<cfg, store, report, errMsg, filterMode, filterInputs,
                   filterIndex, filterError, charSelection, charSelectionCustom,
                   charInputMode, charInput, activeTab, outsideUI>>

\* Update, "left" / "right" (model.go:151-156, moveTab 307-326)
MoveTab ==
    /\ Browsing
    /\ \E delta \in {-1, 1} :
           activeTab' = (IF activeTab + delta < 0 THEN tabCount - 1
                         ELSE IF activeTab + delta >= tabCount THEN 0
                         ELSE activeTab + delta)
    /\ UNCHANGED <<cfg, store, report, errMsg, filterMode, filterInputs,
                   filterIndex, filterError, charSelection, charSelectionCustom,
                   charInputMode, charInput, upc, outsideUI>>

\* The curve windows of a run: those up to MaxWindow, the negative ones
\* among them, and those within MaxWindow of the largest int.
WindowOfRun(w) ==
    \/ IntLeq(w, GoInt(MaxWindow))
    \/ IntLeq(IntSub(MaxGoInt, GoInt(MaxWindow)), w)

\* Update, "=" (model.go:157-161).  The code sets no limit to the window;
\* the key is followed while it leads to a window of the run, below
\* MaxWindow and from the windows next to the largest int, where the sum
\* wraps around.
NextWindow ==
    /\ Browsing
    /\ WindowOfRun(nextCurveWindow(cfg.CurveWindow))
    /\ cfg' = [cfg EXCEPT !.CurveWindow = nextCurveWindow(cfg.CurveWindow)]
    /\ Refresh(cfg')
    /\ UNCHANGED <<store, filterMode, filterInputs, filterIndex, filterError,
                   charSelectionCustom, charInputMode, charInput, activeTab,
                   upc, outsideUI>>

\* Update, "-" (model.go:162-166), followed like "="
PrevWindow ==
    /\ Browsing
    /\ WindowOfRun(prevCurveWindow(cfg.CurveWindow))
    /\ cfg' = [cfg EXCEPT !.CurveWindow = prevCurveWindow(cfg.CurveWindow)]
    /\ Refresh(cfg')
    /\ UNCHANGED <<store, filterMode, filterInputs, filterIndex, filterError,
                   charSelectionCustom, charInputMode, charInput, activeTab,
                   upc, outsideUI>>

\* Update, "/": startFilter (model.go:689-694)
StartFilter ==
    /\ Browsing
    /\ filterMode' = TRUE
    /\ filterError' = ""
    /\ filterInputs' = setInputsFromConfig(cfg)
    /\ filterIndex' = setFilterIndex(0, Len(filterInputs))
    /\ UNCHANGED <<cfg, store, report, errMsg, charSelection,
                   charSelectionCustom, charInputMode, charInput, activeTab,
                   upc, outsideUI>>

\* Update, "enter" on the Char Curves tab: startCharInput (model.go:696-701)
StartCharInput ==
    /\ Browsing
    /\ activeTab = tabCharCurves
    /\ charInputMode' = TRUE
    /\ charInput' = joinAll(charSelection)
    /\ UNCHANGED <<cfg, store, report, errMsg, filterMode, filterInputs,
                   filterIndex, filterError, charSelection, charSelectionCustom,
                   activeTab, upc, outsideUI>>

\* the settings form is open
InForm == upc = "run" /\ filterMode

\* updateFilter, Esc (model.go:705-708)
FilterEsc ==
    /\ InForm
    /\ filterMode' = FALSE
    /\ filterError' = ""
    /\ UNCHANGED <<cfg, store, report, errMsg, filterInputs, filterIndex,
                   charSelection, charSelectionCustom, charInputMode, charInput,
                   activeTab, upc, outsideUI>>

\* updateFilter, Enter (model.go:709-718)
FilterEnter ==
    /\ InForm
    /\ \E a \in {applyFilter(filterInputs, cfg)} :
           IF a.err # ""
           THEN /\ filterError' = a.err
                /\ cfg' = a.cfg
                /\ UNCHANGED <<filterMode, report, errMsg, charSelection>>
           ELSE /\ cfg' = a.cfg
                /\ filterMode' = FALSE
                /\ filterError' = ""
                /\ Refresh(a.cfg)
    /\ UNCHANGED <<store, filterInputs, filterIndex, charSelectionCustom,
                   charInputMode, charInput, activeTab, upc, outsideUI>>

\* updateFilter, Tab (model.go:719-720)
FilterTab ==
    /\ InForm
    /\ filterIndex' = setFilterIndex(filterIndex + 1, Len(filterInputs))
    /\ UNCHANGED <<cfg, store, report, errMsg, filterMode, filterInputs,
                   filterError, charSelection, charSelectionCustom,
                   charInputMode, charInput, activeTab, upc, outsideUI>>

\* updateFilter, Shift+Tab (model.go:721-722)
FilterShiftTab ==
    /\ InForm
    /\ filterIndex' = setFilterIndex(filterIndex - 1, Len(filterInputs))
    /\ UNCHANGED <<cfg, store, report, errMsg, filterMode, filterInputs,
                   filterError, charSelection, charSelectionCustom,
                   charInputMode, charInput, activeTab, upc, outsideUI>>

\* updateFilter, key runes: the focused field takes them at its cursor
\* (model.go:724-726); texts is the texts each field is edited to
FilterRunes(texts) ==
    /\ InForm
    /\ \E rs \in FilterPayloads, p \in 0..Len(filterInputs[filterIndex + 1]) :
       \E new \in {insertAt(filterInputs[filterIndex + 1], p, rs)} :
           /\ new \in texts[filterIndex + 1]
           /\ filterInputs' = [filterInputs EXCEPT ![filterIndex + 1] = new]
    /\ UNCHANGED <<cfg, store, report, errMsg, filterMode, filterIndex,
                   filterError, charSelection, charSelectionCustom,
                   charInputMode, charInput, activeTab, upc, outsideUI>>

\* updateFilter, Backspace: the focused field drops the rune before its
\* cursor (model.go:724-726)
FilterBackspace(texts) ==
    /\ InForm
    /\ \E p \in 1..Len(filterInputs[filterIndex + 1]) :
       \E new \in {deleteBefore(filterInputs[filterIndex + 1], p)} :
           /\ new \in texts[filterIndex + 1]
           /\ filterInputs' = [filterInputs EXCEPT ![filterIndex + 1] = new]
    /\ UNCHANGED <<cfg, store, report, errMsg, filterMode, filterIndex,
                   filterError, charSelection, charSelectionCustom,
                   charInputMode, charInput, activeTab, upc, outsideUI>>

\* the character form is open
InCharForm == upc = "run" /\ ~filterMode /\ charInputMode

\* updateCharInput, Esc (model.go:731-734)
CharEsc ==
    /\ InCharForm
    /\ charInputMode' = FALSE
    /\ UNCHANGED <<cfg, store, report, errMsg, filterMode, filterInputs,
                   filterIndex, filterError, charSelection, charSelectionCustom,
                   charInput, activeTab, upc, outsideUI>>

\* updateCharInput, Enter (model.go:735-741)
CharEnter ==
    /\ InCharForm
    /\ \E a \in {applyCharInput(charInput, report)} :
           /\ charSelectionCustom' = a.custom
           /\ charSelection' = a.selection
    /\ charInputMode' = FALSE
    /\ UNCHANGED <<cfg, store, report, errMsg, filterMode, filterInputs,
                   filterIndex, filterError, charInput, activeTab, upc,
                   outsideUI>>

\* updateCharInput, key runes: the input takes them at its cursor and is
\* normalized (model.go:743-749)
CharRunes ==
    /\ InCharForm
    /\ \E rs \in CharPayloads, p \in 0..Len(charInput) :
       \E new \in {normalizeCharInput(insertAt(charInput, p, rs))} :
           /\ Len(new) <= MaxCharInput
           /\ charInput' = new
    /\ UNCHANGED <<cfg, store, report, errMsg, filterMode, filterInputs,
                   filterIndex, filterError, charSelection, charSelectionCustom,
                   charInputMode, activeTab, upc, outsideUI>>

\* updateCharInput, Backspace (model.go:743-749)
CharBackspace ==
    /\ InCharForm
    /\ \E p \in 1..Len(charInput) :
           charInput' = normalizeCharInput(deleteBefore(charInput, p))
    /\ UNCHANGED <<cfg, store, report, errMsg, filterMode, filterInputs,
                   filterIndex, filterError, charSelection, charSelectionCustom,
                   charInputMode, activeTab, upc, outsideUI>>

\* The UI started with the plain configuration on a store with sessions.
InitSettings == InitUI /\ cfg.Chars = <<>> /\ store.Sessions # <<>>

\* The settings form and the curve window keys.
SpecSettings ==
    /\ InitSettings
    /\ [][\/ NextWindow \/ PrevWindow \/ StartFilter
          \/ FilterEsc \/ FilterEnter \/ FilterTab \/ FilterShiftTab
          \/ FilterRunes(SettingsTexts) \/ FilterBackspace(SettingsTexts)]_vars

\* The UI started with a curve window of 1..MaxWindow, or with the largest
\* int, in a plain configuration (--curve-window takes any int,
\* part_009:285).
WindowConfigs ==
    { [Lang |-> <<>>, Since |-> <<>>, Last |-> GoInt(0), CurveWindow |-> w,
       Chars |-> <<>>] : w \in {GoInt(k) : k \in 1..MaxWindow} \cup {MaxGoInt} }

\* only the curve window is edited, also to the digits of the largest int
WindowTexts == <<{}, {}, {}, windowTexts \cup {maxIntDigits}>>

\* NewModel (model.go:103-119) with one of WindowConfigs
InitWindow ==
    /\ store \in Stores
    /\ cfg \in WindowConfigs
    /\ \E sel \in {parseChars(cfg.Chars)} :
       \E r \in {refreshReport(store, cfg, emptyReport, sel, Len(sel) > 0)} :
           /\ charSelectionCustom = (Len(sel) > 0)
           /\ errMsg = r.errMsg
           /\ report = r.report
           /\ charSelection = r.charSelection
    /\ filterInputs = setInputsFromConfig(cfg)
    /\ filterMode = FALSE /\ filterIndex = 0 /\ filterError = ""
    /\ charInputMode = FALSE /\ charInput = <<>>
    /\ activeTab = tabOverview
    /\ upc = "run"
    /\ IdleResample /\ IdleRow /\ IdleLine /\ IdlePlot /\ IdleWidth /\ IdleCurves
    /\ IdleTop /\ IdleStyled /\ IdleTyping /\ IdleWrap

\* The curve window keys and the settings form with the curve window as the
\* only setting edited.
SpecWindow ==
    /\ InitWindow
    /\ [][\/ NextWindow \/ PrevWindow \/ StartFilter
          \/ FilterEsc \/ FilterEnter \/ FilterTab \/ FilterShiftTab
          \/ FilterRunes(WindowTexts) \/ FilterBackspace(WindowTexts)]_vars

\* Calls of TopCharsByFrequency, and the character selection of the stats UI
\* with the language as the only setting edited.
SpecSelection ==
    /\ InitTop \/ InitUI
    /\ [][\/ TopChars
          \/ Quit \/ MoveTab \/ StartCharInput
          \/ CharEsc \/ CharEnter \/ CharRunes \/ CharBackspace
          \/ StartFilter \/ FilterEsc \/ FilterEnter
          \/ FilterRunes(LanguageTexts) \/ FilterBackspace(LanguageTexts)]_vars

----------------------------------------------------------------------------
\* The typing interface (tui/model.go): the key messages of Update.  The
\* fields of Model that the handlers read and write are the variables; the
\* handlers are operators on a record of them.

MaxKeys == 3    \* key messages of a run
TickMs  == 100  \* ms between two key messages

\* the texts generateText returns: words joined by spaces, no word at all
\* for a configuration of 0 words
Texts == {<<>>, <<97>>, <<97, space, 98>>}

\* the sessions the store holds when the program starts
PriorSessions ==
    {<<>>, <<[CorrectNonSpace |-> 5, IncorrectNonSpace |-> 1,
              DurationMs |-> 6000, chars |-> <<>>]>>}

\* the empty map of charStats
noCharStats == <<>>

\* the zero value of charStat
zeroCharStat ==
    [correct |-> 0, incorrect |-> 0, latencySumMs |-> 0, latencyCount |-> 0]

\* the fields of Model as a record
Self ==
    [targetRunes |-> targetRunes, inputRunes |-> inputRunes,
     started |-> started, startedAt |-> startedAt,
     prevCorrectAt |-> prevCorrectAt,
     correctNonSpace |-> correctNonSpace,
     incorrectNonSpace |-> incorrectNonSpace, charStats |-> charStats,
     hasLast |-> hasLast, lastWPM |-> lastWPM, lastAcc |-> lastAcc,
     allWPM |-> allWPM, allAcc |-> allAcc, allCorrect |-> allCorrect,
     allIncorrect |-> allIncorrect, allDuration |-> allDuration,
     saved |-> saved]

\* the record m becomes the state
Becomes(m) ==
    /\ targetRunes' = m.targetRunes /\ inputRunes' = m.inputRunes
    /\ started' = m.started /\ startedAt' = m.startedAt
    /\ prevCorrectAt' = m.prevCorrectAt
    /\ correctNonSpace' = m.correctNonSpace
    /\ incorrectNonSpace' = m.incorrectNonSpace
    /\ charStats' = m.charStats
    /\ hasLast' = m.hasLast /\ lastWPM' = m.lastWPM /\ lastAcc' = m.lastAcc
    /\ allWPM' = m.allWPM /\ allAcc' = m.allAcc
    /\ allCorrect' = m.allCorrect /\ allIncorrect' = m.allIncorrect
    /\ allDuration' = m.allDuration
    /\ saved' = m.saved

\* handleBackspace (model.go:151-156)
handleBackspace(m) ==
    IF Len(m.inputRunes) = 0 THEN m
    ELSE [m EXCEPT !.inputRunes = SubSeq(@, 1, Len(@) - 1)]

\* charEntry (model.go:246-256): the map with an entry for expected
charEntry(stats, expected) ==
    IF expected \in DOMAIN stats THEN stats
    ELSE [r \in DOMAIN stats \cup {expected} |->
             IF r \in DOMAIN stats THEN stats[r] ELSE zeroCharStat]

\* updateStats (model.go:225-244) at the time t
updateStats(m, expected, typed, t) ==
    IF expected = space THEN m
    ELSE LET stats == charEntry(m.charStats, expected)
             entry == stats[expected]
         IN  IF typed = expected
             THEN LET timed == m.prevCorrectAt # 0
                      hit == [entry EXCEPT
                                 !.correct = @ + 1,
                                 !.latencySumMs =
                                     IF timed THEN @ + (t - m.prevCorrectAt) ELSE @,
                                 !.latencyCount = IF timed THEN @ + 1 ELSE @]
                  IN  [m EXCEPT !.correctNonSpace = @ + 1,
                                !.charStats = [stats EXCEPT ![expected] = hit],
                                !.prevCorrectAt = t]
             ELSE [m EXCEPT !.incorrectNonSpace = @ + 1,
                            !.charStats =
                                [stats EXCEPT ![expected].incorrect = @ + 1]]

\* recomputeAllTime (model.go:203-207)
recomputeAllTime(m) ==
    LET sm == SessionMetrics(m.allCorrect, m.allIncorrect, m.allDuration)
    IN  [m EXCEPT !.allWPM = sm.wpm, !.allAcc = sm.accuracy]

\* Store.InsertSession (part_003:85-143): the session and its character
\* counts are written in one transaction; stored is whether every statement
\* and the commit succeed, and a transaction that fails leaves the store as
\* it was
InsertSession(rows, stats, stored) ==
    IF stored THEN Append(rows, stats) ELSE rows

\* finishSession (model.go:281-327) at the time t; stored is whether the
\* insert into the store succeeds.  An insert that fails is only logged
\* (model.go:313-315), and the counts are added to the totals all the same.
\* The weak set it refreshes only steers the generator, whose text is any
\* of Texts.
finishSession(m, t, stored) ==
    IF ~m.started THEN m
    ELSE LET duration == t - m.startedAt
             sm == SessionMetrics(m.correctNonSpace, m.incorrectNonSpace, duration)
         IN  recomputeAllTime(
                 [m EXCEPT
                     !.saved = InsertSession(@,
                                   [CorrectNonSpace   |-> m.correctNonSpace,
                                    IncorrectNonSpace |-> m.incorrectNonSpace,
                                    DurationMs        |-> duration,
                                    chars             |-> m.charStats],
                                   stored),
                     !.lastWPM = sm.wpm, !.lastAcc = sm.accuracy,
                     !.hasLast = TRUE,
                     !.allCorrect = @ + m.correctNonSpace,
                     !.allIncorrect = @ + m.incorrectNonSpace,
                     !.allDuration = @ + duration])

\* resetSession (model.go:258-269); text is what generateText returns
resetSession(m, text) ==
    [m EXCEPT !.inputRunes = <<>>, !.started = FALSE, !.startedAt = 0,
              !.prevCorrectAt = 0, !.correctNonSpace = 0,
              !.incorrectNonSpace = 0, !.charStats = noCharStats,
              !.targetRunes = text]

\* one pass of the loop of handleRunes up to the test for the end of the
\* text (model.go:163-170): the rune r is appended and counted
typeRune(m, r, t) ==
    LET m1 == IF ~m.started
              THEN [m EXCEPT !.started = TRUE, !.startedAt = t] ELSE m
        pos == Len(m1.inputRunes)
        expected == At(m1.targetRunes, pos)
        m2 == [m1 EXCEPT !.inputRunes = Append(@, r)]
    IN  updateStats(m2, expected, r, t)

\* mutant: the runes behind the one that completes the text are dropped
RECURSIVE handleRunes_dropRest(_, _, _, _, _)
handleRunes_dropRest(m, runes, texts, stored, t) ==
    IF runes = <<>> THEN m
    ELSE IF Len(m.inputRunes) >= Len(m.targetRunes) THEN m
    ELSE \* the model after the rune is a value before the loop goes on
         CHOOSE r \in
             {IF Len(m3.inputRunes) = Len(m3.targetRunes)
              THEN resetSession(finishSession(m3, t, stored[1]), texts[1])
              ELSE handleRunes_dropRest(m3, Tail(runes), texts, stored, t) :
                  m3 \in {typeRune(m, runes[1], t)}} : TRUE

\* handleRunes (model.go:158-176) at the time t; texts are the texts the
\* generator returns to the calls of resetSession, and stored is whether
\* the inserts of finishSession succeed, both in the order of the calls
RECURSIVE handleRunes(_, _, _, _, _)
handleRunes(m, runes, texts, stored, t) ==
    IF runes = <<>> THEN m
    ELSE IF Len(m.inputRunes) >= Len(m.targetRunes) THEN m
    ELSE CHOOSE r \in
             {IF Len(m3.inputRunes) = Len(m3.targetRunes)
              THEN CHOOSE q \in
                       {handleRunes(m4, Tail(runes), Tail(texts), Tail(stored), t) :
                           m4 \in {resetSession(finishSession(m3, t, stored[1]),
                                                texts[1])}} :
                       TRUE
              ELSE handleRunes(m3, Tail(runes), texts, stored, t) :
                  m3 \in {typeRune(m, runes[1], t)}} : TRUE

RECURSIVE textsAfter(_, _, _)
\* the texts the generator may return while n runes are typed into a text
\* of need runes of which have are typed: one for every text the runes
\* complete (the loop of handleRunes, model.go:159-175)
textsAfter(have, need, n) ==
    IF n = 0 \/ have >= need THEN {<<>>}
    ELSE IF have + 1 = need
    THEN UNION {{<<text>> \o more : more \in textsAfter(0, Len(text), n - 1)} :
                    text \in Texts}
    ELSE textsAfter(have + 1, need, n - 1)

\* the texts the generator may return during handleRunes(m, runes): one for
\* every text the runes complete, whether its session is stored or not
GeneratedTexts(m, runes, t) ==
    textsAfter(Len(m.inputRunes), Len(m.targetRunes), Len(runes))

RECURSIVE sumField(_, _)
\* the sum of a field over the sessions (loadFooterStats, model.go:194-198)
sumField(ss, f) == IF ss = <<>> THEN 0 ELSE ss[1][f] + sumField(Tail(ss), f)

\* loadFooterStats (model.go:178-201)
loadFooterStats(m) ==
    IF Len(m.saved) = 0 THEN m
    ELSE LET past == m.saved[Len(m.saved)]
             sm == SessionMetrics(past.CorrectNonSpace, past.IncorrectNonSpace,
                                  past.DurationMs)
         IN  recomputeAllTime(
                 [m EXCEPT !.lastWPM = sm.wpm, !.lastAcc = sm.accuracy,
                           !.hasLast = TRUE,
                           !.allCorrect = @ + sumField(m.saved, "CorrectNonSpace"),
                           !.allIncorrect = @ + sumField(m.saved, "IncorrectNonSpace"),
                           !.allDuration = @ + sumField(m.saved, "DurationMs")])

\* NewModel (model.go:72-86): the zero Model, resetSession, loadFooterStats
NewModel(prior, text) ==
    loadFooterStats(
        resetSession(
            [targetRunes |-> <<>>, inputRunes |-> <<>>, started |-> FALSE,
             startedAt |-> 0, prevCorrectAt |-> 0, correctNonSpace |-> 0,
             incorrectNonSpace |-> 0, charStats |-> noCharStats,
             hasLast |-> FALSE, lastWPM |-> FromInt(0), lastAcc |-> FromInt(0),
             allWPM |-> FromInt(0), allAcc |-> FromInt(0), allCorrect |-> 0,
             allIncorrect |-> 0, allDuration |-> 0, saved |-> prior],
            text))

InitTyping ==
    /\ \E prior \in PriorSessions, text \in Texts :
       \E m \in {NewModel(prior, text)} :
           /\ targetRunes = m.targetRunes /\ inputRunes = m.inputRunes
           /\ started = m.started /\ startedAt = m.startedAt
           /\ prevCorrectAt = m.prevCorrectAt
           /\ correctNonSpace = m.correctNonSpace
           /\ incorrectNonSpace = m.incorrectNonSpace
           /\ charStats = m.charStats
           /\ hasLast = m.hasLast /\ lastWPM = m.lastWPM /\ lastAcc = m.lastAcc
           /\ allWPM = m.allWPM /\ allAcc = m.allAcc
           /\ allCorrect = m.allCorrect /\ allIncorrect = m.allIncorrect
           /\ allDuration = m.allDuration
           /\ saved = m.saved
    /\ now = 0 /\ keyMsg = <<>> /\ ypc = "run"
    /\ cursorIndex = 0 /\ colorProfile = asciiProfile /\ styledRunes = <<>>
    /\ bpc = "idle"
    /\ IdleResample /\ IdleRow /\ IdleLine /\ IdlePlot /\ IdleWidth /\ IdleCurves
    /\ IdleTop /\ IdleUI /\ IdleWrap

\* what no key message changes
outsideTyping ==
    <<rvars, qvars, lvars, pin, pout, wvars, cvars, tvars, uvars, gvars,
      cursorIndex, colorProfile, styledRunes, bpc>>

\* a key message arrives TickMs after the one before
KeyArrives ==
    /\ ypc = "run"
    /\ now < MaxKeys * TickMs
    /\ now' = now + TickMs

\* A key message as Update gets it: its type and runes (tea.KeyMsg), with
\* what the generator and the store return while it is handled: the texts of
\* the calls of generateText and whether the inserts succeed, in the order
\* of the calls.
KeyOf(type, runes, texts, stored) ==
    [type |-> type, runes |-> runes, texts |-> texts, stored |-> stored]

\* Update, tea.KeyBackspace and tea.KeyDelete (model.go:104-106)
KeyBackspace ==
    /\ KeyArrives
    /\ keyMsg' = KeyOf("KeyBackspace", <<>>, <<>>, <<>>)
    /\ \E m \in {handleBackspace(Self)} : Becomes(m)
    /\ UNCHANGED <<ypc, outsideTyping>>

\* Update, tea.KeyRunes with the runes of the message (model.go:110-112)
KeyRunes(runes, texts, stored) ==
    /\ KeyArrives
    /\ keyMsg' = KeyOf("KeyRunes", runes, texts, stored)
    /\ \E self \in {Self} :
       \E m \in {handleRunes(self, runes, texts, stored, now + TickMs)} :
           Becomes(m)
    /\ UNCHANGED <<ypc, outsideTyping>>

\* Update, tea.KeySpace (model.go:107-109)
KeySpace(texts, stored) ==
    /\ KeyArrives
    /\ keyMsg' = KeyOf("KeySpace", <<space>>, texts, stored)
    /\ \E self \in {Self} :
       \E m \in {handleRunes(self, <<space>>, texts, stored, now + TickMs)} :
           Becomes(m)
    /\ UNCHANGED <<ypc, outsideTyping>>

\* the outcomes of n inserts into the store
InsertOutcomes(n) == [1..n -> BOOLEAN]

\* the key messages with runes: a letter, or two of them as a paste or a
\* fast typist sends them
KeyMessages == {<<97>>, <<98>>, <<120>>, <<97, 98>>, <<97, 97>>}

TypeRunes ==
    \E runes \in KeyMessages, self \in {Self} :
        \E texts \in GeneratedTexts(self, runes, now + TickMs) :
            \E stored \in InsertOutcomes(Len(texts)) :
                KeyRunes(runes, texts, stored)

TypeSpace ==
    \E self \in {Self} :
        \E texts \in GeneratedTexts(self, <<space>>, now + TickMs) :
            \E stored \in InsertOutcomes(Len(texts)) :
                KeySpace(texts, stored)

\* Update for the key messages; tea.KeyCtrlC returns tea.Quit and changes
\* no field (model.go:100-116)
SpecTyping == InitTyping /\ [][KeyBackspace \/ TypeRunes \/ TypeSpace]_vars

----------------------------------------------------------------------------
\* wrapStyledRunes (part_002:112-165), one action per pass of its loop.

MaxWrap      == 5   \* most styled runes of a call
MaxWrapWidth == 3   \* widest content of a call

newline == 10

\* styled runes as buildStyledRunes makes them on a terminal without colour:
\* a letter, a space, and a wide rune (U+4E16), whose width go-runewidth
\* gives as 2
StyledKinds ==
    {[s |-> <<97>>,    width |-> 1, isSpace |-> FALSE],
     [s |-> <<space>>, width |-> 1, isSpace |-> TRUE],
     [s |-> <<19990>>, width |-> 2, isSpace |-> FALSE]}

RECURSIVE renderStyledRunes(_)
\* renderStyledRunes (part_002:104-110)
renderStyledRunes(runes) ==
    IF runes = <<>> THEN <<>>
    ELSE runes[1].s \o renderStyledRunes(Tail(runes))

RECURSIVE lineWidthOf(_)
\* lineWidthOf (part_002:150-156)
lineWidthOf(ln) ==
    IF ln = <<>> THEN 0 ELSE ln[1].width + lineWidthOf(Tail(ln))

\* lastSpaceIndex (part_002:158-165): the index, from 0, of the last space
lastSpaceIndex(ln) ==
    IF \E k \in 1..Len(ln) : ln[k].isSpace
    THEN (CHOOSE k \in 1..Len(ln) :
              ln[k].isSpace /\ \A j \in (k + 1)..Len(ln) : ~ln[j].isSpace) - 1
    ELSE -1

\* mutant: a line that is full is always cut where it overflows
wrapPass_hardBreak(runes, w, st) ==
    LET item == At(runes, st.i)
    IN  IF st.lineWidth + item.width > w /\ Len(st.line) > 0
        THEN [st EXCEPT !.out = @ \o renderStyledRunes(st.line) \o <<newline>>,
                        !.line = <<>>, !.lineWidth = 0, !.lastSpaceIdx = -1]
        ELSE [st EXCEPT !.line = Append(@, item),
                        !.lineWidth = @ + item.width,
                        !.lastSpaceIdx = IF item.isSpace THEN Len(st.line) ELSE @,
                        !.i = @ + 1]

\* one pass of the loop (part_002:121-145) on the locals st
wrapPass(runes, w, st) ==
    LET item == At(runes, st.i)
    IN  IF st.lineWidth + item.width > w /\ Len(st.line) > 0
        THEN IF st.lastSpaceIdx >= 0
             THEN LET rest == SubSeq(st.line, st.lastSpaceIdx + 2, Len(st.line))
                  IN  [st EXCEPT
                          !.out = @ \o renderStyledRunes(
                                           SubSeq(st.line, 1, st.lastSpaceIdx))
                                    \o <<newline>>,
                          !.line = rest,
                          !.lineWidth = lineWidthOf(rest),
                          !.lastSpaceIdx = lastSpaceIndex(rest)]
             ELSE [st EXCEPT
                      !.out = @ \o renderStyledRunes(st.line) \o <<newline>>,
                      !.line = <<>>, !.lineWidth = 0, !.lastSpaceIdx = -1]
        ELSE [st EXCEPT !.line = Append(@, item),
                        !.lineWidth = @ + item.width,
                        !.lastSpaceIdx = IF item.isSpace THEN Len(st.line) ELSE @,
                        !.i = @ + 1]

\* the locals of the loop as a record
Locals ==
    [out |-> wrapOut, line |-> wrapLine, lineWidth |-> lineWidth,
     lastSpaceIdx |-> lastSpaceIdx, i |-> wrapI]

InitWrap ==
    /\ wrapRunes \in SeqsUpTo(StyledKinds, MaxWrap)
    /\ wrapWidth \in 0..MaxWrapWidth
    /\ wrapLine = <<>> /\ lineWidth = 0 /\ lastSpaceIdx = 0 /\ wrapI = 0
    /\ wrapOut = <<>> /\ gpc = "call"
    /\ IdleResample /\ IdleRow /\ IdleLine /\ IdlePlot /\ IdleWidth /\ IdleCurves
    /\ IdleTop /\ IdleStyled /\ IdleUI /\ IdleTyping

outsideWrap == <<rvars, qvars, lvars, pin, pout, wvars, cvars, tvars, bvars, uvars, yvars>>

\* the call up to the loop (part_002:113-119)
WrapCall ==
    /\ gpc = "call"
    /\ IF wrapWidth <= 0
       THEN /\ wrapOut' = renderStyledRunes(wrapRunes)
            /\ gpc' = "done"
            /\ UNCHANGED <<wrapLine, lineWidth, lastSpaceIdx, wrapI>>
       ELSE /\ wrapLine' = <<>> /\ lineWidth' = 0 /\ lastSpaceIdx' = -1
            /\ wrapI' = 0 /\ wrapOut' = <<>>
            /\ gpc' = "loop"
    /\ UNCHANGED <<wrapRunes, wrapWidth, outsideWrap>>

\* one pass of the loop
WrapPass ==
    /\ gpc = "loop"
    /\ wrapI < Len(wrapRunes)
    /\ \E st \in {wrapPass(wrapRunes, wrapWidth, Locals)} :
           /\ wrapOut' = st.out /\ wrapLine' = st.line
           /\ lineWidth' = st.lineWidth /\ lastSpaceIdx' = st.lastSpaceIdx
           /\ wrapI' = st.i
    /\ UNCHANGED <<wrapRunes, wrapWidth, gpc, outsideWrap>>

\* the end of the loop: the last line is written (part_002:146-147)
WrapReturn ==
    /\ gpc = "loop"
    /\ wrapI >= Len(wrapRunes)
    /\ wrapOut' = wrapOut \o renderStyledRunes(wrapLine)
    /\ gpc' = "done"
    /\ UNCHANGED <<wrapRunes, wrapWidth, wrapLine, lineWidth, lastSpaceIdx,
                   wrapI, outsideWrap>>

NextWrap == WrapCall \/ WrapPass \/ WrapReturn

SpecWrap == InitWrap /\ [][NextWrap]_vars

\* the call runs on: no pass of the loop waits for anything
FairWrap == SpecWrap /\ WF_vars(NextWrap)

----------------------------------------------------------------------------
\* Properties of resampleSeries.

\* two values are one float64 (a == b)
SameFloat(a, b) == ~RLt(a, b) /\ ~RLt(b, a)

\* two series are one sequence of float64
SameFloats(s, t) ==
    Len(s) = Len(t) /\ \A k \in 1..Len(s) : SameFloat(s[k], t[k])

\* C1: for every non-empty input and every width >= 1 the result of
\* resampleSeries has exactly width elements, in every branch.
C1_ResampleLength ==
    (rpc = "done" /\ Len(values) >= 1 /\ width >= 1) => Len(out) = width

C1_Witness ==
    /\ rpc = "done" /\ Len(values) = 1 /\ width = 3 /\ Len(out) = 3

\* C2: in the downsample branch the blocks [start_i, end_i) partition the
\* input: start_0 = 0, end_i = start_(i+1), every block is non-empty, the
\* last block ends at len(values), every index lies in exactly one block.
C2_DownsampleCoverage ==
    LET n == Len(values)
        S(i) == blockStart(i, n, width)
        E(i) == blockEnd(i, n, width)
    IN  (rpc = "done" /\ width >= 1 /\ n > width) =>
            /\ S(0) = 0
            /\ \A i \in 0..(width - 2) : E(i) = S(i + 1)
            /\ \A i \in 0..(width - 1) : S(i) < E(i)
            /\ E(width - 1) = n
            /\ \A k \in 0..(n - 1) :
                   Cardinality({i \in 0..(width - 1) : S(i) <= k /\ k < E(i)}) = 1

C2_Witness ==
    /\ rpc = "done" /\ Len(values) = 5 /\ width = 3
    /\ blockEnd(0, 5, 3) = 1 /\ blockEnd(1, 5, 3) = 3 /\ blockEnd(2, 5, 3) = 5

\* C3: in the upsample branch output i is the linear interpolation between
\* values[idx] and values[idx+1] at i*(len-1)/(width-1), the last value once
\* idx >= len-1; the first output is values[0], the last is values[len-1],
\* and resample([0,10], 3) = [0, 5, 10].  The interpolation is the real
\* number the float64 operations aim at; the three equalities are equalities
\* of float64.
C3_UpsampleInterpolation ==
    LET n   == Len(values)
        den == width - 1
        Expected(i) ==
            LET num == i * (n - 1)
                idx == num \div den
                r   == num % den
            IN  IF idx >= n - 1 THEN At(values, n - 1)
                ELSE RDiv(RAdd(RMul(At(values, idx), FromInt(den - r)),
                               RMul(At(values, idx + 1), FromInt(r))),
                          FromInt(den))
    IN  (rpc = "done" /\ n >= 2 /\ n < width) =>
            /\ Len(out) = width
            /\ \A i \in 0..(width - 1) : SameReal(At(out, i), Expected(i))
            /\ SameFloat(At(out, 0), At(values, 0))
            /\ SameFloat(At(out, width - 1), At(values, n - 1))
            /\ (values = <<FromInt(0), FromInt(10)>> /\ width = 3
                    => SameFloats(out, <<FromInt(0), FromInt(5), FromInt(10)>>))

C3_Witness ==
    /\ rpc = "done" /\ values = <<FromInt(0), FromInt(10)>> /\ width = 3
    /\ SameFloats(out, <<FromInt(0), FromInt(5), FromInt(10)>>)

\* C4: when len(values) = width the result equals values element by element.
C4_ResampleIdentity ==
    (rpc = "done" /\ width >= 1 /\ Len(values) = width) => out = values

C4_Witness ==
    /\ rpc = "done" /\ width = 3
    /\ values = <<FromInt(10), FromInt(0), FromInt(5)>> /\ out = values

----------------------------------------------------------------------------
\* Properties of drawLine.

\* C6: the dots drawLine plots form a connected path: two consecutive dots
\* are distinct and differ by at most 1 in x and at most 1 in y.
C6_LineConnected ==
    lpc = "done" =>
        \A k \in 1..(Len(dots) - 1) :
            /\ dots[k] # dots[k + 1]
            /\ Abs(dots[k + 1][1] - dots[k][1]) <= 1
            /\ Abs(dots[k + 1][2] - dots[k][2]) <= 1

C6_Witness ==
    /\ lpc = "done" /\ x1 - x0 = 3 /\ y0 - y1 = 2 /\ Len(dots) = 4

\* C7: the first dot drawLine plots is (x0,y0) and the last is (x1,y1); so in
\* a render the dot (2x, row(x)) of every sample x ends the segment drawn to
\* it, and it is lit in the series' grid whenever the dash style of the
\* series allows dot-column 2x.
DotLit(cells, x, y) ==
    (At(At(cells, y \div 4), x \div 2) \div brailleDotMask(x % 2, y % 4)) % 2 = 1

C7_EndpointsPlotted ==
    /\ lpc = "done" =>
           /\ Len(dots) >= 1
           /\ dots[1] = <<x0, y0>>
           /\ dots[Len(dots)] = <<x1, y1>>
    /\ ppc = "done" =>
           \A si \in 1..Len(scaled) :
               LET vals == scaled[si].Values
                   H    == Len(seriesCells[si])
                   Row(x) == sampleRow(vals, minMax[si], H, x)
               IN  \A x \in 0..(Len(vals) - 1) :
                       /\ x > 0 =>
                              LET seg == drawLine(2 * (x - 1), Row(x - 1), 2 * x, Row(x))
                              IN  Len(seg) >= 1 /\ seg[Len(seg)] = <<2 * x, Row(x)>>
                       /\ shouldPlot(styleOf(si - 1), 2 * x) =>
                              DotLit(seriesCells[si], 2 * x, Row(x))

C7_Witness ==
    /\ lpc = "done" /\ x0 = 2 /\ y0 = -1 /\ x1 = -1 /\ y1 = 3
    /\ dots[1] = <<2, -1>> /\ dots[Len(dots)] = <<-1, 3>>

----------------------------------------------------------------------------
\* Properties of plotSeries.

\* number of the series with values, resolved height, lines before the
\* min/max lines
Survivors == Cardinality({i \in 1..Len(series) : series[i].Values # <<>>})
Rows      == IF height <= 0 THEN defaultPlotHeight ELSE height
TitleLines == IF title # <<>> THEN 1 ELSE 0
Rendered  == ppc = "done" /\ Survivors >= 1

\* the i-th min/max line, the y-th data row (y from 0), the legend line
MinMaxLineOf(i) == sink[TitleLines + 1 + i]
DataRowOf(y)    == sink[TitleLines + 1 + Survivors + y + 1]
LegendLine      == sink[TitleLines + 1 + Survivors + Rows + 1]

StartsWith(str, prefix) ==
    Len(str) >= Len(prefix) /\ SubSeq(str, 1, Len(prefix)) = prefix

HasEsc(lines) ==
    \E l \in 1..Len(lines) : \E k \in 1..Len(lines[l]) : lines[l][k] = ESC

\* C5: a series whose resampled values span less than 1e-9 is scaled with,
\* and reported as, the range [min-1, max+1] (constant 5 gives min=4.00
\* max=6.00), and the range of every series has max > min.
C5_DegenerateRangeWidened ==
    Rendered =>
        \A i \in 1..Len(scaled) :
            LET vals == scaled[i].Values
                lo == CHOOSE v \in {vals[k] : k \in 1..Len(vals)} :
                          \A k \in 1..Len(vals) : ~RLt(vals[k], v)
                hi == CHOOSE v \in {vals[k] : k \in 1..Len(vals)} :
                          \A k \in 1..Len(vals) : ~RLt(v, vals[k])
            IN  /\ RLt(minMax[i].min, minMax[i].max)
                /\ belowEpsilon(RAbs(RSub(hi, lo))) =>
                       /\ SameFloat(minMax[i].min, RSub(lo, FromInt(1)))
                       /\ SameFloat(minMax[i].max, RAdd(hi, FromInt(1)))
                       /\ MinMaxLineOf(i) = minMaxLine(scaled[i].Name, minMax[i])
                /\ (\A k \in 1..Len(vals) : SameFloat(vals[k], FromInt(5))) =>
                       MinMaxLineOf(i) = scaled[i].Name
                           \o <<58, 32, 109, 105, 110, 61, 52, 46, 48, 48,
                                32, 109, 97, 120, 61, 54, 46, 48, 48>>

C5_Witness ==
    /\ Rendered /\ title = <<>>
    /\ series[1].Values = <<FromInt(5), FromInt(5)>>
    /\ SameFloat(minMax[1].min, FromInt(4)) /\ SameFloat(minMax[1].max, FromInt(6))
    /\ sink[2] = <<65, 58, 32, 109, 105, 110, 61, 52, 46, 48, 48,
                   32, 109, 97, 120, 61, 54, 46, 48, 48>>

\* C8 as stated: the output has an escape byte only if NO_COLOR is empty and
\* colour is forced on or the sink is a terminal, and it has none whenever
\* NO_COLOR is set or colour is not forced on.
C8_Original ==
    ppc = "done" =>
        /\ HasEsc(sink) => (NO_COLOR = <<>> /\ (forceColor \/ isTerminal))
        /\ (NO_COLOR # <<>> \/ ~forceColor) => ~HasEsc(sink)

\* C8 (amended): the output has an escape byte only if NO_COLOR is empty and
\* colour is forced on or the sink is a terminal; it has none whenever
\* NO_COLOR is non-empty (even with colour forced on), or colour is not
\* forced on and the sink is not a terminal.
C8_ColorSuppression ==
    ppc = "done" =>
        /\ HasEsc(sink) => (NO_COLOR = <<>> /\ (forceColor \/ isTerminal))
        /\ (NO_COLOR # <<>> \/ (~forceColor /\ ~isTerminal)) => ~HasEsc(sink)

C8_Witness ==
    /\ Rendered /\ NO_COLOR # <<>> /\ forceColor /\ isTerminal
    /\ Len(sink) > 0 /\ ~HasEsc(sink)

\* C9: with k >= 1 non-empty series the lines are: the title (if not empty),
\* the scale note, k min/max lines in series order, height data rows, the
\* legend line, one empty line; (1 if title) + 1 + k + height + 2 in all.
IsTwoDecimal(str) ==
    LET body == IF str # <<>> /\ str[1] = 45 THEN Tail(str) ELSE str
        n    == Len(body)
    IN  /\ n >= 4
        /\ body[n - 2] = 46
        /\ \A k \in (1..n) \ {n - 2} : IsDigit(body[k])

C9_LineOrder ==
    Rendered =>
        /\ Len(sink) = TitleLines + 1 + Survivors + Rows + 2
        /\ title # <<>> => sink[1] = title
        /\ sink[TitleLines + 1] = scaleNote
        /\ Len(scaled) = Survivors
        /\ \A i \in 1..Survivors :
               \E a, b \in 1..Len(MinMaxLineOf(i)) :
                   /\ a < b
                   /\ SubSeq(MinMaxLineOf(i), 1, a) =
                          scaled[i].Name \o <<58, 32, 109, 105, 110, 61>>
                   /\ IsTwoDecimal(SubSeq(MinMaxLineOf(i), a + 1, b))
                   /\ SubSeq(MinMaxLineOf(i), b + 1, b + 5) = <<32, 109, 97, 120, 61>>
                   /\ IsTwoDecimal(SubSeq(MinMaxLineOf(i), b + 6, Len(MinMaxLineOf(i))))
        /\ \A i, j \in 1..Survivors :
               i < j => \E a, b \in 1..Len(series) :
                            /\ a < b
                            /\ series[a].Name = scaled[i].Name
                            /\ series[b].Name = scaled[j].Name
        /\ \A y \in 0..(Rows - 1) :
               /\ Len(DataRowOf(y)) >= 7
               /\ SubSeq(DataRowOf(y), 5, 7) = axisSeparator
               /\ \A k \in 8..Len(DataRowOf(y)) : DataRowOf(y)[k] # 32
        /\ StartsWith(LegendLine, <<76, 101, 103, 101, 110, 100, 58, 32>>)
        /\ sink[Len(sink)] = <<>>

C9_Witness ==
    /\ Rendered /\ title # <<>> /\ Survivors = 2 /\ height = 4
    /\ Len(sink) = 10 /\ sink[1] = title /\ sink[2] = scaleNote /\ sink[10] = <<>>

\* C10 as stated: for every height >= 1 the gutter is "100%" on the first
\* row, "50%" on row height/2 when height > 2, "0%" on the last row, blank
\* on the other rows.
Gutter(y) == SubSeq(DataRowOf(y), 1, 4)

C10_Original ==
    Rendered =>
        /\ Gutter(0) = <<49, 48, 48, 37>>
        /\ Gutter(Rows - 1) = <<32, 32, 48, 37>>
        /\ Rows > 2 => Gutter(Rows \div 2) = <<32, 53, 48, 37>>
        /\ \A y \in 1..(Rows - 2) :
               (Rows <= 2 \/ y # Rows \div 2) => Gutter(y) = <<32, 32, 32, 32>>

\* C10 (amended): the gutter is "100%" on the first row, "50%" on row
\* height/2 when height > 2, "0%" on the last row when height > 1, blank on
\* the other rows, right-aligned in 4 columns and followed by the separator;
\* for height 4 the gutters are "100%", blank, "50%", "0%".
C10_AxisGutter ==
    Rendered =>
        /\ Gutter(0) = <<49, 48, 48, 37>>
        /\ Rows > 1 => Gutter(Rows - 1) = <<32, 32, 48, 37>>
        /\ Rows > 2 => Gutter(Rows \div 2) = <<32, 53, 48, 37>>
        /\ \A y \in 1..(Rows - 2) :
               (Rows <= 2 \/ y # Rows \div 2) => Gutter(y) = <<32, 32, 32, 32>>
        /\ \A y \in 0..(Rows - 1) : SubSeq(DataRowOf(y), 5, 7) = axisSeparator
        /\ Rows = 4 =>
               <<Gutter(0), Gutter(1), Gutter(2), Gutter(3)>> =
                   << <<49, 48, 48, 37>>, <<32, 32, 32, 32>>,
                      <<32, 53, 48, 37>>, <<32, 32, 48, 37>> >>

C10_Witness ==
    /\ Rendered /\ height = 4
    /\ Gutter(0) = <<49, 48, 48, 37>> /\ Gutter(1) = <<32, 32, 32, 32>>
    /\ Gutter(2) = <<32, 53, 48, 37>> /\ Gutter(3) = <<32, 32, 48, 37>>

\* C11: series without values are dropped before rendering: the surviving
\* series keep their order and names, each gets one min/max line and one
\* legend entry, and style and colour follow the position among the
\* survivors; with no surviving series nothing at all is written.
Kept == {i \in 1..Len(series) : series[i].Values # <<>>}

KeptAt(k) == CHOOSE i \in Kept : Cardinality({j \in Kept : j < i}) = k - 1

C11_EmptySeriesDropped ==
    ppc = "done" =>
        /\ Kept = {} =>
               /\ sink = <<>>
               /\ scaled = <<>> /\ minMax = <<>> /\ seriesCells = <<>>
        /\ Kept # {} =>
               /\ Len(scaled) = Cardinality(Kept)
               /\ Len(minMax) = Cardinality(Kept)
               /\ Len(seriesCells) = Cardinality(Kept)
               /\ Len(sink) = TitleLines + 1 + Cardinality(Kept) + Rows + 2
               /\ \A k \in 1..Cardinality(Kept) :
                      /\ scaled[k].Name = series[KeptAt(k)].Name
                      /\ scaled[k].Values # <<>>
                      /\ StartsWith(MinMaxLineOf(k),
                                    series[KeptAt(k)].Name \o <<58, 32, 109, 105, 110, 61>>)
               /\ LegendLine =
                      renderLegend([k \in 1..Cardinality(Kept) |->
                                       [Name |-> series[KeptAt(k)].Name]], useColor)

C11_Witness ==
    /\ ppc = "done" /\ Len(series) = 2 /\ title = <<>>
    /\ series[1].Values = <<>> /\ series[2].Values = <<FromInt(5), FromInt(0)>>
    /\ Len(scaled) = 1 /\ scaled[1].Name = <<66>>
    /\ StartsWith(sink[2], <<66, 58, 32, 109, 105, 110, 61>>)
    /\ LegendLine = <<76, 101, 103, 101, 110, 100, 58, 32>>
                        \o <<10241, 32, 66, 32, 40, 115, 111, 108, 105, 100, 41>>

----------------------------------------------------------------------------
\* Properties of PlotWidthFor.

\* C13: PlotWidthFor(totalWidth) is totalWidth minus the 7 columns of the
\* gutter ("100%" and the 3-rune separator) but at least 10 for
\* totalWidth > 0, it is 10 for totalWidth <= 0, and it is never below 10.
C13_PlotWidthFor ==
    wpc = "done" =>
        /\ totalWidth > 0 =>
               fitWidth = (IF totalWidth - 7 < 10 THEN 10 ELSE totalWidth - 7)
        /\ totalWidth <= 0 => fitWidth = 10
        /\ fitWidth >= 10
        /\ Len(axisLabelTop) + Len(axisSeparator) = 7

C13_Witness ==
    /\ wpc = "done" /\ totalWidth = 50 /\ fitWidth = 43

----------------------------------------------------------------------------
\* More properties of resampleSeries.

\* C18: in the downsample branch output i times the length of block i is
\* the sum of the input values at the indices start_i .. end_i - 1, so the
\* outputs weighted by their block lengths add up to the sum of all inputs
\* (as real numbers: the float64 operations round each of them).
RECURSIVE SumRange(_, _, _)
SumRange(vals, a, b) ==
    IF a >= b THEN FromInt(0) ELSE RAdd(At(vals, a), SumRange(vals, a + 1, b))

RECURSIVE WeightedSum(_, _, _)
WeightedSum(res, lens, i) ==
    IF i >= Len(res) THEN FromInt(0)
    ELSE RAdd(RMul(At(res, i), FromInt(At(lens, i))), WeightedSum(res, lens, i + 1))

C18_BlockMean ==
    LET n == Len(values)
        S(i) == (i * n) \div width
        E(i) == ((i + 1) * n) \div width
    IN  (rpc = "done" /\ width >= 1 /\ n > width) =>
            /\ Len(out) = width
            /\ \A i \in 0..(width - 1) :
                   /\ E(i) > S(i)
                   /\ SameReal(RMul(At(out, i), FromInt(E(i) - S(i))),
                               SumRange(values, S(i), E(i)))
            /\ SameReal(WeightedSum(out, [i \in 1..width |-> E(i - 1) - S(i - 1)], 0),
                        SumRange(values, 0, n))

C18_Witness ==
    /\ rpc = "done" /\ width = 2
    /\ values = <<FromInt(0), FromInt(5), FromInt(10), FromInt(10), FromInt(5)>>
    /\ Len(out) = 2 /\ SameReal(out[1], Rat(5, 2)) /\ SameReal(out[2], Rat(25, 3))

----------------------------------------------------------------------------
\* More properties of plotSeries.

\* C19: with range [min,max] and H rows of cells, a value v is drawn at
\* dot-row round((1 - (v-min)/(max-min)) * (4H-1)), clamped to 0..4H-1, the
\* operations being those of float64: the range's max maps to row 0, its min
\* to row 4H-1, a larger value never maps to a lower row, every sample's row
\* lies in the grid, and the dot of every sample whose dot-column the dash
\* style allows is lit at that row.
ExpectedRow(v, mm, H) ==
    LET pos == RDiv(RSub(v, mm.min), RSub(mm.max, mm.min))
        row == RRound(RMul(RSub(FromInt(1), pos), FromInt(4 * H - 1)))
    IN  IF row < 0 THEN 0 ELSE IF row > 4 * H - 1 THEN 4 * H - 1 ELSE row

C19_RowMapping ==
    Rendered =>
        \A i \in 1..Len(scaled) :
            \E vals \in {scaled[i].Values}, mm \in {minMax[i]} :
            \E rows \in {[x \in 1..Len(vals) |-> ExpectedRow(vals[x], mm, Rows)] \o <<>>} :
                /\ valueToRow(mm.max, mm.min, mm.max, 4 * Rows) = 0
                /\ valueToRow(mm.min, mm.min, mm.max, 4 * Rows) = 4 * Rows - 1
                /\ \A x \in 1..Len(vals) :
                       /\ valueToRow(vals[x], mm.min, mm.max, 4 * Rows) = rows[x]
                       /\ rows[x] \in 0..(4 * Rows - 1)
                       /\ rows[x] = 0 \/ ~SameFloat(vals[x], mm.max)
                       /\ rows[x] = 4 * Rows - 1 \/ ~SameFloat(vals[x], mm.min)
                       /\ shouldPlot(styleOf(i - 1), 2 * (x - 1)) =>
                              DotLit(seriesCells[i], 2 * (x - 1), rows[x])
                       /\ \A z \in 1..Len(vals) :
                              rows[x] >= rows[z] \/ ~RLt(vals[x], vals[z])

C19_Witness ==
    /\ Rendered /\ height = 2 /\ plotWidth = 12
    /\ series[1].Values = <<FromInt(0), FromInt(5)>>
    /\ SameFloat(minMax[1].min, FromInt(0)) /\ SameFloat(minMax[1].max, FromInt(5))
    /\ DotLit(seriesCells[1], 0, 7) /\ DotLit(seriesCells[1], 22, 0)
    /\ ExpectedRow(scaled[1].Values[2], minMax[1], 2) = 6

\* C20: the series with surviving index i is rasterized with the style
\* lineStyles[i mod 4]: a dot (x, y) of its grid is lit exactly if the path
\* through its samples (the first sample's dot and every dot drawLine visits
\* between consecutive samples) contains (x, y) and x mod period < on, where
\* x is the absolute dot-column; with the solid style every dot of the path
\* is lit.
SeqRange(sq) == {sq[k] : k \in 1..Len(sq)}

SamplePath(vals, mm, H) ==
    LET Row(x) == ExpectedRow(At(vals, x), mm, H)
    IN  {<<0, Row(0)>>} \cup
        UNION {SeqRange(drawLine(2 * (x - 1), Row(x - 1), 2 * x, Row(x))) :
                  x \in 1..(Len(vals) - 1)}

C20_DashStyle ==
    Rendered =>
        \A i \in 1..Len(scaled) :
            \E st \in {At(lineStyles, (i - 1) % 4)},
               path \in {SamplePath(scaled[i].Values, minMax[i], Rows)} :
                /\ At(lineStyles, 0).period = 1
                /\ \A x \in 0..(2 * Len(scaled[i].Values) - 1), y \in 0..(4 * Rows - 1) :
                       DotLit(seriesCells[i], x, y) <=>
                           (<<x, y>> \in path /\ x % st.period < st.on)

C20_Witness ==
    /\ Rendered /\ Len(scaled) = 5 /\ height = 2 /\ plotWidth = 12
    /\ series[1].Values = <<FromInt(0), FromInt(5)>>
    /\ DotLit(seriesCells[4], 0, 0) /\ DotLit(seriesCells[4], 2, 1)
    /\ \A x \in 3..7, y \in 0..7 : ~DotLit(seriesCells[4], x, y)
    /\ DotLit(seriesCells[4], 8, 3)
    /\ seriesCells[5] = seriesCells[1]
    /\ seriesCells[3] # seriesCells[1]

----------------------------------------------------------------------------
\* Properties of the curve renderers.

\* the lines of the sink that are data rows: gutter, separator, cells
DataRows ==
    {l \in 1..Len(sink) : Len(sink[l]) >= 7 /\ SubSeq(sink[l], 5, 7) = axisSeparator}

\* C14: for every totalWidth > 0, PlotWidthFor(totalWidth) plus the 7
\* columns of the gutter is at most totalWidth, and no data row the curve
\* renderers write with colour off is wider than totalWidth.
C14_Original ==
    /\ (wpc = "done" /\ totalWidth > 0) => fitWidth + 7 <= totalWidth
    /\ (cpc = "done" /\ totalWidth > 0 /\ ~useColor) =>
           \A l \in DataRows : Len(sink[l]) <= totalWidth

----------------------------------------------------------------------------
\* Properties of TopCharsByFrequency.

\* total count of the aggregate at index i of as
TotalAt(as, i) == as[i].Correct + as[i].Incorrect

\* aggregate j comes before aggregate i: larger total, or equal totals and
\* the smaller character, or the same of both and the earlier position
Precedes(as, j, i) ==
    \/ TotalAt(as, j) > TotalAt(as, i)
    \/ /\ TotalAt(as, j) = TotalAt(as, i)
       /\ \/ StrLess(as[j].Char, as[i].Char)
          \/ as[j].Char = as[i].Char /\ j < i

\* the number of aggregates that come before aggregate i
RankOf(as, i) == Cardinality({j \in 1..Len(as) : Precedes(as, j, i)})

\* the characters of as by rank, the first m of them
FirstByRank(as, m) ==
    [k \in 1..m |-> as[CHOOSE i \in 1..Len(as) : RankOf(as, i) = k - 1].Char]

\* the call of TopCharsByFrequency returned the characters by rank
TopByTotal ==
    tpc = "done" =>
        IF topN <= 0 \/ Len(aggs) = 0 THEN top = <<>>
        ELSE /\ Len(top) = (IF topN > Len(aggs) THEN Len(aggs) ELSE topN)
             /\ top = FirstByRank(aggs, Len(top))

\* the selection of the stats UI without a custom selection is the first
\* five characters of the loaded report by rank, or all of them if fewer
DefaultSelection ==
    (upc # "idle" /\ ~charSelectionCustom) =>
        charSelection =
            FirstByRank(report.CharAggsAll,
                        IF Len(report.CharAggsAll) < 5
                        THEN Len(report.CharAggsAll) ELSE 5)

\* C15: TopCharsByFrequency(aggs, n) is empty when n <= 0 or aggs is empty;
\* otherwise it holds min(n, len(aggs)) characters, the characters of aggs by
\* total count (Correct + Incorrect) descending, equal totals by character
\* ascending.  In the stats UI the character selection is that of n = 5 on the
\* loaded report whenever no custom selection is active.
C15_TopChars == TopByTotal /\ DefaultSelection

\* the UI shows the sessions of language "e": six characters, three of them
\* with the total 1, and the default selection is the first five
C15_Witness ==
    /\ upc = "run" /\ ~charSelectionCustom /\ ~store.Fails
    /\ cfg.Lang = <<101>> /\ cfg.Last = GoInt(0) /\ errMsg = ""
    /\ Len(report.CharAggsAll) = 6
    /\ charSelection = << <<97>>, <<98>>, <<102>>, <<99>>, <<100>> >>

----------------------------------------------------------------------------
\* Properties of buildStyledRunes.

\* the rendered rune carries the underline attribute: its string starts
\* with an escape sequence that sets it
IsUnderlined(s) ==
    colorProfile.name # "Ascii" /\ Len(s) >= 1 /\ ~s[1].reset /\ s[1].underline

\* the typed runes that match the target are rendered in the correct style
TypedMatchesCorrect ==
    \A i \in 0..(Len(inputRunes) - 1) :
        At(inputRunes, i) = At(targetRunes, i) =>
            At(styledRunes, i).s =
                Render(correctStyle, <<At(targetRunes, i)>>, colorProfile)

\* no rune is underlined when the input is complete
NoneUnderlinedWhenComplete ==
    cursorIndex = -1 => \A k \in 1..Len(styledRunes) : ~IsUnderlined(styledRunes[k].s)

\* the call has a cursor rune: the first untyped rune of the target
AtCursor ==
    /\ bpc = "done" /\ cursorIndex = Len(inputRunes)
    /\ cursorIndex < Len(targetRunes)

\* C16: the first untyped target rune is rendered in cursorStyle,
\* the pending style with underline; typed runes that match the target are
\* rendered in the correct style; no rune is underlined for cursorIndex = -1.
C16_Original ==
    /\ AtCursor =>
           At(styledRunes, cursorIndex).s =
               Render(cursorStyle, <<At(targetRunes, cursorIndex)>>, colorProfile)
    /\ bpc = "done" => TypedMatchesCorrect /\ NoneUnderlinedWhenComplete

----------------------------------------------------------------------------
\* Properties of the settings form.

MaxInt == 20          \* the integers looked at are -MaxInt..MaxInt

\* the calendar of the years looked at: the last day of each month
MonthEnds(y) ==
    <<31, IF y = 2024 THEN 29 ELSE 28, 31, 30, 31, 30, 31, 31, 30, 31, 30, 31>>

\* the texts "YYYY-MM-DD" of the days of 2023 and 2024
DateTexts ==
    UNION {{FormatDate(<<y, m, d>>) : d \in 1..MonthEnds(y)[m]} :
               y \in {2023, 2024}, m \in 1..12}

\* the decimal texts of the integers looked at
IntTexts == {Itoa(GoInt(k)) : k \in (-MaxInt)..MaxInt}

\* the decimal texts of the negative integers, and of those below 1
NegativeTexts == {Itoa(GoInt(k)) : k \in (-MaxInt)..(-1)}
BelowOneTexts == {Itoa(GoInt(k)) : k \in (-MaxInt)..0}

\* the text of a field without the spaces around it; <<>> is a blank field
FieldText(k) == TrimSpace(filterInputs[k])

\* a 'since' that is given and is not a date
SinceInvalid == FieldText(2) # <<>> /\ FieldText(2) \notin DateTexts

\* a 'last' that is given and is not an integer an int holds, or is negative
LastInvalid ==
    /\ FieldText(3) # <<>>
    /\ \/ FieldText(3) \notin IntTexts
       \/ FieldText(3) \in NegativeTexts

\* a curve window that is given and is not an integer an int holds, or is
\* below 1
WindowInvalid ==
    /\ FieldText(4) # <<>>
    /\ \/ FieldText(4) \notin IntTexts
       \/ FieldText(4) \in BelowOneTexts

AllFieldsValid == ~SinceInvalid /\ ~LastInvalid /\ ~WindowInvalid

\* C17: while the settings form is open, a step changes cfg only if it is
\* Enter with four fields that validate (a blank field validates); Esc leaves
\* cfg and the report as they are and closes the form; Enter with an invalid
\* 'since' date, a negative or non-integer 'last', or a curve window that is
\* non-integer or below 1 leaves cfg as it is, keeps the form open and sets
\* an error message.
C17_SettingsFrame ==
    [][ (upc = "run" /\ filterMode) =>
            /\ cfg' # cfg => (FilterEnter /\ AllFieldsValid)
            /\ FilterEsc => (cfg' = cfg /\ report' = report /\ ~filterMode')
            /\ (~AllFieldsValid /\ FilterEnter) =>
                   (cfg' = cfg /\ report' = report /\ filterMode'
                        /\ filterError' # "") ]_vars

\* Enter was pressed with the language edited to "e" and the curve window
\* to "0": the form is open with the error and cfg is the one of the start
C17_Witness ==
    /\ upc = "run" /\ filterMode
    /\ filterError = errWindowMin
    /\ filterInputs[1] = <<101>> /\ filterInputs[4] = <<48>>
    /\ cfg.Lang = <<>> /\ cfg.CurveWindow = GoInt(5)

----------------------------------------------------------------------------
\* Properties of the composed canvas and of the rows written from it.

\* the resolved width of the call: the cells of a data row
Cols ==
    LET asked == IF plotWidth <= 0
                 THEN (IF termCols <= 0 THEN terminalWidthBackup ELSE termCols) - 7
                 ELSE plotWidth
    IN  IF asked < minPlotWidth THEN minPlotWidth ELSE asked

\* bit b of a mask
Bit(mask, b) == (mask \div (2 ^ b)) % 2 = 1

\* the mask of series i (from 1) at cell (x, y)
MaskAt(i, x, y) == At(At(seriesCells[i], y), x)

\* the series (from 1) with a lit dot in cell (x, y)
LitAt(x, y) == {i \in 1..Len(seriesCells) : MaskAt(i, x, y) # 0}

\* the owner of cell (x, y): the index (from 0) of the first series with a
\* lit dot in it, -1 without one
OwnerAt(x, y) ==
    IF LitAt(x, y) = {} THEN -1
    ELSE (CHOOSE i \in LitAt(x, y) : \A j \in LitAt(x, y) : i <= j) - 1

\* position k of a line starts a token: it is not inside an escape sequence
\* ("\x1b[" up to "m", at most 5 long as those of the palette are)
StartsToken(line, k) ==
    ~\E j \in (k - 4)..(k - 1) :
        /\ j >= 1 /\ line[j] = ESC
        /\ \A t \in (j + 1)..(k - 1) : line[t] # 109

RECURSIVE TokensIn(_, _, _)
\* the tokens of line[lo..hi], lo starting a token: the escape sequences and
\* the single runes.  The range is cut at the token start nearest its middle.
TokensIn(line, lo, hi) ==
    IF lo > hi THEN <<>>
    ELSE LET cuts == {k \in (lo + 1)..hi : StartsToken(line, k)}
             Dist(k) == Abs(2 * k - (lo + hi + 1))
             cut == CHOOSE c \in cuts :
                        \A d \in cuts : Dist(c) < Dist(d) \/ (Dist(c) = Dist(d) /\ c <= d)
         IN  IF cuts = {} THEN <<SubSeq(line, lo, hi)>>
             ELSE TokensIn(line, lo, cut - 1) \o TokensIn(line, cut, hi)

\* a line cut into its escape sequences and its runes
Tokens(line) == TokensIn(line, 1, Len(line))

\* the tokens of data row y behind the gutter and the separator
CellTokens(y) == Tokens(SubSeq(DataRowOf(y), 8, Len(DataRowOf(y))))

\* the glyphs of data row y
Glyphs(y) == SelectSeq(CellTokens(y), LAMBDA t : t[1] # ESC)

\* C21: for every cell (x, y) the composed mask is the bitwise OR of the
\* masks of all series at (x, y), the owner is the lowest series index with
\* a non-zero mask there, the owner is -1 exactly when the composed mask is
\* 0, and the glyph written for the cell is the Braille glyph of that mask.
C21_ComposedCell ==
    Rendered =>
        \A y \in 0..(Rows - 1), x \in 0..(Cols - 1) :
            \E c \in {composeCell(seriesCells, x, y)} :
                /\ c.mask \in 0..255
                /\ \A b \in 0..7 :
                       Bit(c.mask, b) <=>
                           \E i \in 1..Len(seriesCells) : Bit(MaskAt(i, x, y), b)
                /\ c.colorIdx = OwnerAt(x, y)
                /\ (c.colorIdx = -1) <=> (c.mask = 0)
                /\ At(Glyphs(y), x) = <<10240 + c.mask>>

\* two series light different dots of one cell: the cell shows both
C21_Witness ==
    /\ Rendered /\ Len(seriesCells) >= 2
    /\ \E y \in 0..(Rows - 1), x \in 0..(Cols - 1) :
           /\ MaskAt(1, x, y) # 0 /\ MaskAt(2, x, y) # 0
           /\ composeCell(seriesCells, x, y).mask \notin {MaskAt(1, x, y), MaskAt(2, x, y)}
           /\ composeCell(seriesCells, x, y).colorIdx = 0
           /\ At(Glyphs(y), x) # <<10240 + MaskAt(1, x, y)>>

\* the cells of data row y with an owner
OwnedCells(y) == {x \in 0..(Cols - 1) : OwnerAt(x, y) >= 0}

\* the cell the k-th token of a data row belongs to: the glyphs before it
CellOf(toks, k) ==
    Cardinality({j \in 1..(k - 1) : toks[j][1] # ESC})

\* C22: with colour enabled every data-row cell with an owner is written as
\* the code of colorPalette[owner mod 5], one Braille glyph and the reset; a
\* cell without an owner is the bare blank glyph; a row holds no other
\* escape sequence, so no colour is active across a cell boundary or at the
\* end of a row. Without colour a row holds no escape sequence at all.
C22_CellEscapes ==
    Rendered =>
        \A y \in 0..(Rows - 1) :
            \E toks \in {CellTokens(y)} :
                /\ Len(Glyphs(y)) = Cols
                /\ Len(toks) = Cols + (IF useColor THEN 2 * Cardinality(OwnedCells(y)) ELSE 0)
                /\ \A k \in 1..Len(toks) :
                       toks[k][1] # ESC =>
                           /\ Len(toks[k]) = 1
                           /\ toks[k][1] \in 10240..10495
                           /\ IF useColor /\ CellOf(toks, k) \in OwnedCells(y)
                              THEN /\ k > 1 /\ k < Len(toks)
                                   /\ toks[k - 1] =
                                          colorPalette[(OwnerAt(CellOf(toks, k), y) % 5) + 1].code
                                   /\ toks[k + 1] = colorReset
                              ELSE /\ k > 1 => toks[k - 1] \notin {colorPalette[c].code : c \in 1..5}
                                   /\ k < Len(toks) => toks[k + 1] # colorReset
                           /\ CellOf(toks, k) \notin OwnedCells(y) => toks[k] = <<10240>>
                /\ Len(toks) > 0 => toks[Len(toks)] \notin {colorPalette[c].code : c \in 1..5}

\* a coloured row in which the sixth series owns a cell, written in the first
\* colour of the palette again, next to a cell without an owner
C22_Witness ==
    /\ Rendered /\ useColor
    /\ \E y \in 0..(Rows - 1) :
           /\ \E x \in 0..(Cols - 1) : OwnerAt(x, y) = 5
           /\ \E x \in 0..(Cols - 1) : OwnerAt(x, y) = -1
           /\ \E toks \in {CellTokens(y)} :
                  \E k \in 2..Len(toks) :
                      /\ toks[k][1] # ESC
                      /\ OwnerAt(CellOf(toks, k), y) = 5
                      /\ toks[k - 1] = colorPalette[1].code

\* the legend entry of the series with surviving index i (from 0), as the
\* claim words it: marker, name, style name in parentheses, in the colour of
\* the series when colour is used
LegendEntry(i, name) ==
    LET plain == <<10241, 32>> \o name \o <<32, 40>>
                     \o At(lineStyles, i % 4).name \o <<41>>
    IN  IF useColor
        THEN At(colorPalette, i % 5).code \o plain \o colorReset
        ELSE plain

RECURSIVE LegendEntries(_)
\* the entries of the surviving series from the k-th on, two spaces between
LegendEntries(k) ==
    IF k > Cardinality(Kept) THEN <<>>
    ELSE (IF k > 1 THEN <<32, 32>> ELSE <<>>)
             \o LegendEntry(k - 1, series[KeptAt(k)].Name)
             \o LegendEntries(k + 1)

\* C23: the legend lists every surviving series once and in order, each with
\* the name of the style lineStyles[i mod 4] of its surviving index i, which
\* is the style its grid was rasterized with, and with colour on in the
\* palette colour colorPalette[i mod 5], which is the colour of the cells it
\* owns; the four style names differ pairwise, so two series whose indices
\* differ mod 4, and the two series of a two-series plot, are told apart.
C23_Legend ==
    Rendered =>
        /\ LegendLine = <<76, 101, 103, 101, 110, 100, 58, 32>> \o LegendEntries(1)
        /\ \A i, j \in 0..3 :
               i # j => /\ At(lineStyles, i).name # At(lineStyles, j).name
                        /\ <<At(lineStyles, i).period, At(lineStyles, i).on>>
                               # <<At(lineStyles, j).period, At(lineStyles, j).on>>
        /\ \A i \in 1..Len(seriesCells) :
               \E st \in {At(lineStyles, (i - 1) % 4)} :
                   /\ \A x \in 0..(2 * Cols - 1), y \in 0..(4 * Rows - 1) :
                          DotLit(seriesCells[i], x, y) => x % st.period < st.on
                   /\ useColor =>
                          \A y \in 0..(Rows - 1) :
                              \E toks \in {CellTokens(y)} :
                                  \A k \in 1..Len(toks) :
                                      (/\ toks[k][1] # ESC
                                       /\ OwnerAt(CellOf(toks, k), y) = i - 1)
                                          => toks[k - 1] = At(colorPalette, (i - 1) % 5).code

\* six series: the sixth owns a cell and the legend names it "dashed" in the
\* first colour of the palette
C23_Witness ==
    /\ Rendered /\ useColor
    /\ Cardinality(Kept) = 6
    /\ \E y \in 0..(Rows - 1), x \in 0..(Cols - 1) : OwnerAt(x, y) = 5
    /\ SubSeq(LegendLine, Len(LegendLine) - 20, Len(LegendLine))
           = colorPalette[1].code
                 \o <<10241, 32, 70, 32, 40, 100, 97, 115, 104, 101, 100, 41>>
                 \o colorReset

\* a call whose second series is empty names its third series second
C23_SurvivorSeen ==
    /\ Rendered /\ ~useColor
    /\ Len(series) = 3 /\ Kept = {1, 3}
    /\ LegendLine = <<76, 101, 103, 101, 110, 100, 58, 32>>
                        \o <<10241, 32, 65, 32, 40, 115, 111, 108, 105, 100, 41>>
                        \o <<32, 32>>
                        \o <<10241, 32, 67, 32, 40, 100, 97, 115, 104, 101, 100, 41>>

----------------------------------------------------------------------------
\* Properties of plotSeries that compare calls.

\* replacements for n series: one shape for all, or a shape and its reverse
\* in turn
AltLists(n) ==
    {[j \in 1..n |-> sh] : sh \in AltShapes}
        \cup {[j \in 1..n |-> IF j % 2 = 1 THEN sh ELSE Reverse(sh)] : sh \in AltShapes}

\* the non-empty series of the call with the values of every series but the
\* k-th replaced by those of alt
Replaced(k, alt) ==
    [j \in 1..Cardinality(Kept) |->
        [Name   |-> series[KeptAt(j)].Name,
         Values |-> IF j = k THEN series[KeptAt(j)].Values ELSE alt[j]]]

\* C24: with the width, the height and the number of non-empty series
\* fixed, the min/max line and the dot grid of the series with surviving
\* index i are those of every call in which the values of the other series
\* are replaced by other non-empty values: they depend on the values of
\* series i and on i only.
C24_Independent ==
    Rendered =>
        \A k \in 1..Cardinality(Kept) :
            \A alt \in AltLists(Cardinality(Kept)) :
                \E r \in {plotSeriesOut(title, Replaced(k, alt), plotWidth,
                                        height, forceColor)} :
                    /\ r.written
                    /\ r.scaled[k] = scaled[k]
                    /\ r.minMax[k] = minMax[k]
                    /\ r.seriesCells[k] = seriesCells[k]
                    /\ r.lines[TitleLines + 1 + k] = MinMaxLineOf(k)

\* two series with different ranges: the second is drawn within its own
\* range, and a replaced first series yields other lines elsewhere
C24_Witness ==
    /\ Rendered /\ Cardinality(Kept) = 2
    /\ minMax[1] # minMax[2]
    /\ \E y \in 0..(Rows - 1), x \in 0..(Cols - 1) : MaskAt(2, x, y) # 0
    /\ \E alt \in AltLists(2) :
           \E r \in {plotSeriesOut(title, Replaced(2, alt), plotWidth,
                                   height, forceColor)} :
               /\ r.seriesCells[1] # seriesCells[1]
               /\ r.lines # SubSeq(sink, 1, Len(r.lines))
               /\ r.seriesCells[2] = seriesCells[2]

----------------------------------------------------------------------------
\* Properties of the resolved size of a plot.

\* the lines of the sink that are data rows: all between the min/max lines
\* and the last two lines, the legend and the blank line
RowLines == (TitleLines + 1 + Survivors + 1)..(Len(sink) - 2)

\* C25: a height of 0 or less is drawn with 10 rows; a width of 0 or less
\* is taken from the terminal (its columns less the 7 of the gutter, 80
\* columns when its size is unknown), and a width below 10 is raised to 10;
\* every surviving series is resampled to exactly the resolved width, and
\* every data row has exactly that many Braille cells behind the gutter.  A
\* requested width of 5 gives 10 cells per row.
C25_ResolvedSize ==
    Rendered =>
        \E H \in {IF height <= 0 THEN 10 ELSE height},
           W \in {IF plotWidth > 0 THEN (IF plotWidth < 10 THEN 10 ELSE plotWidth)
                  ELSE IF termCols <= 0 THEN 80 - 7
                  ELSE IF termCols - 7 < 10 THEN 10 ELSE termCols - 7} :
            /\ W >= 10 /\ W = Cols /\ H = Rows
            /\ plotWidth = 5 => W = 10
            /\ Cardinality(RowLines) = H
            /\ Len(scaled) = Survivors /\ Len(seriesCells) = Survivors
            /\ \A i \in 1..Len(scaled) :
                   /\ Len(scaled[i].Values) = W
                   /\ Len(seriesCells[i]) = H
                   /\ \A y \in 1..H : Len(seriesCells[i][y]) = W
            /\ \A y \in 0..(H - 1) :
                   /\ TitleLines + 1 + Survivors + y + 1 \in RowLines
                   /\ SubSeq(DataRowOf(y), 5, 7) = axisSeparator
                   /\ \E gs \in {Glyphs(y)} :
                          /\ Len(gs) = W
                          /\ \A k \in 1..W : gs[k][1] \in 10240..10495
                   /\ ~useColor => Len(DataRowOf(y)) = 7 + W

\* a call asking for width 5 and height 0 writes 10 rows of 10 cells
C25_Witness ==
    /\ Rendered /\ plotWidth = 5 /\ height = 0
    /\ Cardinality(RowLines) = 10
    /\ \A y \in 0..9 : Len(Glyphs(y)) = 10
    /\ Len(scaled[1].Values) = 10 /\ Len(series[1].Values) = 1

\* a call asking for no width, the size of the terminal unknown, writes rows
\* of 73 cells; with a terminal of SizedCols columns it writes rows of 12
C25_TerminalSeen ==
    /\ Rendered /\ plotWidth <= 0
    /\ \/ termCols = 0 /\ Len(Glyphs(0)) = 73 /\ Len(scaled[1].Values) = 73
       \/ termCols = SizedCols /\ Len(Glyphs(0)) = 12 /\ Len(scaled[1].Values) = 12

----------------------------------------------------------------------------
\* Properties of the length of a line.

\* C26: drawLine returns for every pair of end points, equal ones and
\* horizontal, vertical and diagonal segments among them, after exactly
\* max(|x1 - x0|, |y1 - y0|) + 1 calls of plot.
C26_LineLength ==
    lpc = "done" =>
        /\ Len(dots) = Max2(Abs(x1 - x0), Abs(y1 - y0)) + 1
        /\ x0 = x1 /\ y0 = y1 => dots = <<<<x0, y0>>>>
        /\ \A k \in 1..(Len(dots) - 1) : dots[k] # dots[k + 1]

\* a segment that is neither axis-parallel nor diagonal: 4 calls for 3
\* columns and 2 rows
C26_Witness ==
    /\ lpc = "done"
    /\ x0 = 0 /\ y0 = 0 /\ x1 = 3 /\ y1 = -2
    /\ Len(dots) = 4

----------------------------------------------------------------------------
\* Properties of the dot-columns of a series.

\* the dot-columns of series i (from 1) with at least one lit dot
LitCols(i) ==
    {x \in 0..(2 * Cols - 1) :
        \E y \in 0..(4 * Rows - 1) : DotLit(seriesCells[i], x, y)}

\* the dots handed to the plot callback for series i: those of the first
\* sample and of the lines between consecutive samples
PlotCalls(i) ==
    LET vals == scaled[i].Values
        rows == [x \in 1..Len(vals) |-> sampleRow(vals, minMax[i], Rows, x - 1)]
    IN  UNION {SeqRange(sampleDots(rows, x)) : x \in 0..(Len(vals) - 1)}

\* C27: for a series rasterized at the resolved width W with the style
\* {period, on} of its index, the dot-columns with at least one lit dot are
\* exactly the x in 0..2W-2 with x mod period < on; every dot handed to
\* setBrailleDot lies inside the grid of H x W cells, so its guard rejects
\* none; the rightmost dot-column 2W-1 is never lit.
C27_LitColumns ==
    Rendered =>
        \A i \in 1..Len(seriesCells) :
            \E st \in {At(lineStyles, (i - 1) % 4)}, lit \in {LitCols(i)} :
                /\ lit = {x \in 0..(2 * Cols - 2) : x % st.period < st.on}
                /\ 2 * Cols - 1 \notin lit
                /\ \A d \in PlotCalls(i) :
                       /\ d[1] \in 0..(2 * Cols - 1)
                       /\ d[2] \in 0..(4 * Rows - 1)
                       /\ d[1] \div 2 < Len(seriesCells[i][1])
                       /\ d[2] \div 4 < Len(seriesCells[i])

\* the dashed second series of a plot of width 12: its lit dot-columns are
\* 0..2, 6..8, 12..14 and 18..20 of the 24
C27_Witness ==
    /\ Rendered /\ plotWidth = 12 /\ Len(seriesCells) >= 2
    /\ Len(series[2].Values) = 2
    /\ LitCols(2) = {0, 1, 2, 6, 7, 8, 12, 13, 14, 18, 19, 20}
    /\ LitCols(1) = 0..22

----------------------------------------------------------------------------
\* Properties of the typing interface.

\* the counters of the running session and the totals are as they were
CountersKept ==
    /\ correctNonSpace' = correctNonSpace
    /\ incorrectNonSpace' = incorrectNonSpace
    /\ charStats' = charStats
    /\ allCorrect' = allCorrect /\ allIncorrect' = allIncorrect
    /\ saved' = saved

\* the number of inserts that succeed
Succeeded(stored) == Cardinality({i \in 1..Len(stored) : stored[i]})

\* The step completed the text of the running session with the rune r typed
\* for expected: the counts of the session with those of r were added to
\* the totals, its duration too, and a session on the text starts with what
\* the runes behind r give; if kept, the session is in the store with these
\* counts, and if not, the store is as it was.
CompletedBy(r, text, behind, kept) ==
    LET expected == targetRunes[Len(targetRunes)]
        hit   == IF expected # space /\ r = expected THEN 1 ELSE 0
        miss  == IF expected # space /\ r # expected THEN 1 ELSE 0
        right == correctNonSpace + hit
        wrong == incorrectNonSpace + miss
        since == IF started THEN startedAt ELSE now'
    IN  /\ SubSeq(saved', 1, Len(saved)) = saved
        /\ kept =>
               /\ Len(saved') >= Len(saved) + 1
               /\ saved'[Len(saved) + 1].CorrectNonSpace = right
               /\ saved'[Len(saved) + 1].IncorrectNonSpace = wrong
               /\ saved'[Len(saved) + 1].DurationMs = now' - since
        /\ (behind = <<>> \/ Len(text) >= 2) =>
               /\ Len(saved') = Len(saved) + (IF kept THEN 1 ELSE 0)
               /\ allCorrect' = allCorrect + right
               /\ allIncorrect' = allIncorrect + wrong
               /\ allDuration' = allDuration + (now' - since)
               /\ hasLast'
               /\ targetRunes' = text /\ inputRunes' = behind
        /\ behind = <<>> =>
               /\ ~started' /\ startedAt' = 0 /\ prevCorrectAt' = 0
               /\ correctNonSpace' = 0 /\ incorrectNonSpace' = 0
               /\ charStats' = noCharStats
        /\ (behind # <<>> /\ Len(text) >= 2) =>
               /\ started' /\ startedAt' = now'
               /\ correctNonSpace' + incorrectNonSpace'
                      = (IF text[1] # space THEN 1 ELSE 0)

\* What the key message of a step does when the program runs.  A message
\* with runes finishes as many sessions as it completes texts, and the store
\* has one session more for each of them that is kept; if always, every
\* finished session is taken to be kept, else the ones whose insert
\* succeeds.
KeySteps(always) ==
    ypc = "run" =>
        \E msg \in {keyMsg'.runes}, texts \in {keyMsg'.texts},
           stored \in {keyMsg'.stored} :
            /\ keyMsg'.type \in {"KeyRunes", "KeySpace"} =>
                   /\ Len(saved') = Len(saved) + (IF always THEN Len(texts)
                                                  ELSE Succeeded(stored))
                   /\ targetRunes = <<>> =>
                          /\ targetRunes' = <<>> /\ inputRunes' = <<>>
                          /\ CountersKept
                   /\ (texts = <<>> /\ targetRunes # <<>>) =>
                          /\ targetRunes' = targetRunes
                          /\ inputRunes' = inputRunes \o msg
                          /\ allCorrect' = allCorrect
                          /\ allIncorrect' = allIncorrect
                   /\ (texts # <<>> /\ Len(inputRunes) + 1 = Len(targetRunes)) =>
                          CompletedBy(msg[1], texts[1], Tail(msg),
                                      always \/ stored[1])
            /\ keyMsg'.type = "KeyBackspace" =>
                   /\ inputRunes' = SubSeq(inputRunes, 1, Len(inputRunes) - 1)
                   /\ targetRunes' = targetRunes
                   /\ CountersKept

\* with a non-empty target text the input is shorter than the target
InputShorter ==
    ypc = "run" /\ targetRunes # <<>> => Len(inputRunes) < Len(targetRunes)

\* C28 as stated: with a non-empty target text the input is always shorter
\* than the target.  The rune that fills the last position, correct or not,
\* finishes the session exactly once: the session is saved with its counts,
\* they are added to the all-time totals, and a fresh session starts with
\* empty input and zeroed counters, to which the runes left in the key
\* message are applied.  Backspace removes the last rune of the input, or
\* nothing from an empty input, and changes no counter.
C28_Original == []InputShorter /\ [][KeySteps(TRUE)]_vars

\* C28 (amended): as stated, but the session is saved only if the insert
\* into the store succeeds; when it fails the store is as it was, and the
\* counts and the duration of the session are added to the all-time totals
\* all the same.  A message adds as many sessions to the store as inserts
\* succeed.
C28_TypingSession == []InputShorter /\ [][KeySteps(FALSE)]_vars

\* the first key message is "aa" on the text "a", with a session in the
\* store: the first "a" completes the text and its session is stored as the
\* second one; the second "a" completes the next text "a", the insert of
\* its session fails, and its count is in the totals all the same
C28_Witness ==
    /\ ypc = "run" /\ now = TickMs
    /\ Len(saved) = 2 /\ saved[1].DurationMs = 6000
    /\ saved[2].CorrectNonSpace = 1 /\ saved[2].IncorrectNonSpace = 0
    /\ allCorrect = 7 /\ allIncorrect = 1 /\ allDuration = 6000
    /\ targetRunes = <<97, space, 98>> /\ inputRunes = <<>>
    /\ ~started /\ correctNonSpace = 0 /\ incorrectNonSpace = 0

\* a rune was removed by backspace after a wrong rune was counted
C28_BackspaceSeen ==
    /\ ypc = "run" /\ inputRunes = <<>> /\ started
    /\ incorrectNonSpace = 1 /\ targetRunes = <<97, space, 98>>

----------------------------------------------------------------------------
\* Properties of wrapStyledRunes.

\* the display width of a rune of the output
RuneWidth(r) == IF r = 19990 THEN 2 ELSE 1

RECURSIVE TextWidth(_)
TextWidth(text) ==
    IF text = <<>> THEN 0 ELSE RuneWidth(text[1]) + TextWidth(Tail(text))

\* the lines of a text: the runs between its newlines
LineStarts(text) ==
    {1} \cup {k + 1 : k \in {j \in 1..Len(text) : text[j] = newline}}

LineFrom(text, a) ==
    LET ends == {k \in a..Len(text) : text[k] = newline}
        b    == IF ends = {} THEN Len(text) + 1
                ELSE CHOOSE k \in ends : \A j \in ends : k <= j
    IN  SubSeq(text, a, b - 1)

LinesOf(text) == {LineFrom(text, a) : a \in LineStarts(text)}

RECURSIVE WrapsTo(_, _)
\* text is the input with some of its spaces replaced by a newline and
\* further newlines put between its runes
WrapsTo(text, input) ==
    IF text = <<>> THEN input = <<>>
    ELSE IF text[1] = newline
    THEN \/ WrapsTo(Tail(text), input)
         \/ /\ input # <<>> /\ input[1] = space
            /\ WrapsTo(Tail(text), Tail(input))
    ELSE /\ input # <<>> /\ input[1] = text[1]
         /\ WrapsTo(Tail(text), Tail(input))

\* every rune of the call fits the width on its own
AllFit == \A k \in 1..Len(wrapRunes) : wrapRunes[k].width <= wrapWidth

\* the pass about to run breaks the line
Breaks ==
    /\ gpc = "loop" /\ wrapI < Len(wrapRunes)
    /\ wrapLine # <<>>
    /\ lineWidthOf(wrapLine) + At(wrapRunes, wrapI).width > wrapWidth

\* the spaces of the line being filled, by their index from 1
SpacesOfLine == {k \in 1..Len(wrapLine) : wrapLine[k].isSpace}

\* C29: for every rune sequence and every width >= 1 wrapStyledRunes
\* returns; when every rune is at most as wide as the width, every line of
\* the output is at most as wide as the width; a line is broken when the
\* next rune would overflow it: at its last space when it has one, the space
\* being dropped and the runes behind it starting the next line, and at the
\* overflow otherwise; so the output holds all runes of the input in their
\* order but for the spaces dropped at breaks.
C29_Wrap ==
    /\ <>(gpc = "done")
    /\ []((gpc = "done" /\ wrapWidth >= 1) =>
              /\ WrapsTo(wrapOut, renderStyledRunes(wrapRunes))
              /\ AllFit => \A ln \in LinesOf(wrapOut) : TextWidth(ln) <= wrapWidth)
    /\ [][gpc = "loop" =>
            IF Breaks
            THEN IF SpacesOfLine # {}
                 THEN \E k \in SpacesOfLine :
                          /\ \A j \in SpacesOfLine : j <= k
                          /\ wrapOut' = wrapOut
                                 \o renderStyledRunes(SubSeq(wrapLine, 1, k - 1))
                                 \o <<newline>>
                          /\ wrapLine' = SubSeq(wrapLine, k + 1, Len(wrapLine))
                          /\ wrapI' = wrapI
                 ELSE /\ wrapOut' = wrapOut \o renderStyledRunes(wrapLine)
                                        \o <<newline>>
                      /\ wrapLine' = <<>>
                      /\ wrapI' = wrapI
            ELSE IF wrapI < Len(wrapRunes)
                 THEN /\ wrapLine' = Append(wrapLine, At(wrapRunes, wrapI))
                      /\ wrapOut' = wrapOut /\ wrapI' = wrapI + 1
                 ELSE wrapOut' = wrapOut \o renderStyledRunes(wrapLine)]_vars

\* "a a aa" wrapped at width 3: broken twice at a space, which is dropped,
\* into "a a", "aa"; and "aaaa a" broken at the overflow and at a space
C29_Witness ==
    /\ gpc = "done" /\ wrapWidth = 3
    /\ \/ /\ renderStyledRunes(wrapRunes) = <<97, space, 97, space, 97>>
          /\ wrapOut = <<97, space, 97, newline, 97>>
       \/ /\ renderStyledRunes(wrapRunes) = <<97, 97, 97, 97, 97>>
          /\ wrapOut = <<97, 97, 97, newline, 97, 97>>

----------------------------------------------------------------------------
\* Properties of the curve window of the stats UI.

\* C30: the curve window stays >= 1: it starts >= 1, the settings form
\* takes only an integer >= 1 for it, "=" moves it to the next multiple of 5
\* above it and "-" to the previous multiple of 5 below it, or to 1.
C30_Original == IntLeq(GoInt(1), cfg.CurveWindow)

====
